---- MODULE Spec2Model ----
(***************************************************************************)
(* A model of the flexparser grammar engine (src/flexparser/flexparser.py):*)
(* source lines are turned into (lineno, colno, statement) triples, read   *)
(* through a peekable hashing iterator, and consumed by the recursive      *)
(* Block.consume algorithm.  Strings are sequences of one-character        *)
(* strings, so that strip, startswith, split and the statement classes'   *)
(* from_string are computed as the code computes them.                     *)
(*                                                                         *)
(* The recursion of Block.consume is kept as an explicit stack of          *)
(* activation records; one step of the model is one iteration of the      *)
(* `while closing is None` loop of the innermost open block.               *)
(***************************************************************************)
EXTENDS Integers, Sequences, FiniteSets, TLC

VARIABLES
    lines,      \* the lines of the source being parsed (Parser.parse_file)
    grammar,    \* the declared block classes (type annotations of the Block subclasses)
    hsi,        \* the HashSequenceIterator: its _it, _cache and _hasher
    stack,      \* activation records of Block.consume: cls, opening, body
    strip_spaces,   \* StatementIterator._strip_spaces
    delimiters,     \* StatementIterator._delimiters, in the order of the dict keys
    pc,         \* "start", "loop" or "done"
    result,     \* the block returned by RootBlock.consume
    calls,      \* the calls of peek and next made on hsi by a caller, with what they gave
    statements, \* the (colno, statement) pairs that isplit_mode yielded for a line
    files,      \* the file system: the lines of every file that exists, by path
    parsed,     \* the records returned by Parser.parse_file, by path
    pp,         \* the ParsedProject that parse builds
    pending     \* the list `pending` of parse

\* what belongs to the parse of one source
vars_parse == <<lines, grammar, strip_spaces, delimiters, hsi, stack, pc, result>>

\* what the parse of one source leaves alone
vars_beyond == <<calls, statements, files, parsed, pp, pending>>

vars == <<lines, grammar, strip_spaces, delimiters, hsi, stack, pc, result,
          calls, statements, files, parsed, pp, pending>>

----------------------------------------------------------------------------
(* Bounds *)

MaxLines == 3

\* the lines of a file of a project
MaxFileLines == 2

\* the includes waiting in `pending`
MaxPending == 4

\* calls made on one iterator
MaxCalls == 4

\* characters of a line handed to the splitter
MaxLineLen == 4

\* how long the target of an include is
MaxTargetLen == 4

\* how many classes a spec of parse names
MaxClasses == 2

----------------------------------------------------------------------------
(* Strings *)

Letters == {"a", "b", "d", "e", "f", "g", "h", "i", "n", "x", "_"}

Digits == {"0", "1"}

\* str.isspace for the characters of the model's alphabet
IsSpace(c) == c \in {" ", "\t"}

RECURSIVE LStrip(_)
LStrip(s) == IF s # <<>> /\ IsSpace(Head(s)) THEN LStrip(Tail(s)) ELSE s

RECURSIVE RStrip(_)
RStrip(s) ==
    IF s # <<>> /\ IsSpace(s[Len(s)]) THEN RStrip(SubSeq(s, 1, Len(s) - 1)) ELSE s

\* str.strip()
Strip(s) == RStrip(LStrip(s))

\* str.startswith
StartsWith(s, p) == Len(s) >= Len(p) /\ SubSeq(s, 1, Len(p)) = p

\* c in s
Contains(s, c) == \E i \in 1..Len(s) : s[i] = c

\* index of the first occurrence of c in s (s contains c)
IndexOf(s, c) == CHOOSE i \in 1..Len(s) : s[i] = c /\ \A j \in 1..(i - 1) : s[j] # c

\* str.isidentifier for the characters of the model's alphabet
IsIdentifier(s) ==
    /\ s # <<>>
    /\ s[1] \in Letters
    /\ \A i \in 1..Len(s) : s[i] \in Letters \cup Digits

\* float(s) succeeds: digits with at most one decimal point.  Signs,
\* exponents, "inf" and "nan" are not part of the enumerated inputs.
IsFloat(s) ==
    /\ \E i \in 1..Len(s) : s[i] \in Digits
    /\ \A i \in 1..Len(s) : s[i] \in Digits \cup {"."}
    /\ Cardinality({i \in 1..Len(s) : s[i] = "."}) <= 1

----------------------------------------------------------------------------
(* Elements *)

None == [node |-> "None"]

\* Element(): lineno and colno default to -1
Element(type, args) ==
    [node |-> "Element", type |-> type, lineno |-> -1, colno |-> -1, args |-> args]

\* a set_line_col that takes the column for the line and the line for the
\* column
set_line_col_swapped(el, lineno, colno) == [el EXCEPT !.lineno = colno, !.colno = lineno]

set_line_col(el, lineno, colno) == [el EXCEPT !.lineno = lineno, !.colno = colno]

\* an UnknownStatement left at the position of a new Element
from_line_col_statement_unset(lineno, colno, statement) ==
    Element("UnknownStatement", <<statement>>)

from_line_col_statement(lineno, colno, statement) ==
    set_line_col(Element("UnknownStatement", <<statement>>), lineno, colno)

UnexpectedEOF == Element("UnexpectedEOF", <<>>)

\* subclasses of ParsingError
ErrorTypes ==
    {"UnknownStatement", "UnexpectedEOF", "NotAValidIdentifier", "CannotParseToFloat"}

IsBlock(el) == el.node = "Block"

IsNone(el) == el.node = "None"

IsError(el) == el.node = "Element" /\ el.type \in ErrorTypes

----------------------------------------------------------------------------
(* Statement classes of the test suite *)

Open_from_string(s) ==
    IF s = <<"@", "b", "e", "g", "i", "n">> THEN Element("Open", <<>>) ELSE None

Close_from_string(s) ==
    IF s = <<"@", "e", "n", "d">> THEN Element("Close", <<>>) ELSE None

Comment_from_string(s) ==
    IF StartsWith(s, <<"#">>) THEN Element("Comment", <<s>>) ELSE None

\* The enumerated inputs hold at most one "=", so that `a, b = s.split("=")`
\* unpacks.
EqualFloat_from_string(s) ==
    IF ~Contains(s, "=") THEN None
    ELSE LET i == IndexOf(s, "=")
             a == Strip(SubSeq(s, 1, i - 1))
             b == Strip(SubSeq(s, i + 1, Len(s)))
         IN  IF ~IsIdentifier(a) THEN Element("NotAValidIdentifier", <<a>>)
             ELSE IF ~IsFloat(b) THEN Element("CannotParseToFloat", <<b>>)
             ELSE Element("EqualFloat", <<a, b>>)

\* examples/pint/parse-pint.py: ImportDefinition, an IncludeStatement whose
\* target is the text after "@import"
ImportDefinition_from_string(s) ==
    IF StartsWith(s, <<"@", "i", "m", "p", "o", "r", "t">>)
    THEN Element("ImportDefinition", <<Strip(SubSeq(s, 8, Len(s)))>>)
    ELSE None

\* subclasses of IncludeStatement
IncludeTypes == {"ImportDefinition"}

\* IncludeStatement.target, as ImportDefinition implements it
target(el) == el.args[1]

BOS_from_string(s) == Element("BOS", <<>>)

EOS_from_string(s) == Element("EOS", <<>>)

StatementClasses ==
    {"Open", "Close", "Comment", "EqualFloat", "ImportDefinition", "BOS", "EOS"}

\* ParsedStatement.from_string_and_config: the default delegates to
\* from_string; BOS and EOS override it.  The config is opaque and unused.
from_string_and_config(cls, s) ==
    CASE cls = "Open" -> Open_from_string(s)
      [] cls = "Close" -> Close_from_string(s)
      [] cls = "Comment" -> Comment_from_string(s)
      [] cls = "EqualFloat" -> EqualFloat_from_string(s)
      [] cls = "ImportDefinition" -> ImportDefinition_from_string(s)
      [] cls = "BOS" -> BOS_from_string(s)
      [] cls = "EOS" -> EOS_from_string(s)

----------------------------------------------------------------------------
(* Line splitter *)

SKIP == 0

WITH_PREVIOUS == 1

WITH_NEXT == 2

\* the delimiter, if any, that the compiled alternation matches at 0-based
\* position pos: the alternatives are tried in the order of the dict keys
RECURSIVE MatchAt(_, _, _)
MatchAt(dlms, line, pos) ==
    IF dlms = <<>> THEN <<>>
    ELSE LET d == Head(dlms).dlm
         IN  IF /\ pos + Len(d) <= Len(line)
                /\ SubSeq(line, pos + 1, pos + Len(d)) = d
             THEN d
             ELSE MatchAt(Tail(dlms), line, pos)

\* isplit: (col, part, delimiter) for every match of re.finditer, then
\* (col, rest, None); col is where the part begins, pos where the search is
RECURSIVE isplit_from(_, _, _, _)
isplit_from(dlms, line, col, pos) ==
    IF pos >= Len(line)
    THEN << [col |-> col, part |-> SubSeq(line, col + 1, Len(line)),
             isnone |-> TRUE, dlm |-> <<>>] >>
    ELSE LET m == MatchAt(dlms, line, pos)
         IN  IF m = <<>>
             THEN isplit_from(dlms, line, col, pos + 1)
             ELSE << [col |-> col, part |-> SubSeq(line, col + 1, pos),
                      isnone |-> FALSE, dlm |-> m] >>
                  \o isplit_from(dlms, line, pos + Len(m), pos + Len(m))

isplit(dlms, line) == isplit_from(dlms, line, 0, 0)

\* delimiters[dlm]
Lookup(dlms, d) == dlms[CHOOSE i \in 1..Len(dlms) : dlms[i].dlm = d]

\* a loop that yields the parts that are empty as well
RECURSIVE isplit_mode_loop_all_parts(_, _, _, _, _)
isplit_mode_loop_all_parts(dlms, line, items, dragged, break_next) ==
    IF items = <<>> THEN <<>>
    ELSE LET it == Head(items)
         IN  IF break_next
             THEN << <<it.col - Len(dragged),
                       dragged \o SubSeq(line, it.col + 1, Len(line))>> >>
             ELSE LET cfg == IF it.isnone THEN [dlm |-> <<>>, mode |-> SKIP, stop |-> FALSE]
                                          ELSE Lookup(dlms, it.dlm)
                      part == IF ~it.isnone /\ cfg.mode = WITH_PREVIOUS
                              THEN it.part \o it.dlm ELSE it.part
                      next_drag == IF ~it.isnone /\ cfg.mode = WITH_NEXT
                                   THEN it.dlm ELSE <<>>
                  IN  << <<it.col - Len(dragged), dragged \o part>> >>
                      \o isplit_mode_loop_all_parts(dlms, line, Tail(items), next_drag, cfg.stop)

\* a loop that takes the carry off the column of a statement twice
RECURSIVE isplit_mode_loop_carry_twice(_, _, _, _, _)
isplit_mode_loop_carry_twice(dlms, line, items, dragged, break_next) ==
    IF items = <<>> THEN <<>>
    ELSE LET it == Head(items)
         IN  IF break_next
             THEN << <<it.col - 2 * Len(dragged),
                       dragged \o SubSeq(line, it.col + 1, Len(line))>> >>
             ELSE LET cfg == IF it.isnone THEN [dlm |-> <<>>, mode |-> SKIP, stop |-> FALSE]
                                          ELSE Lookup(dlms, it.dlm)
                      part == IF ~it.isnone /\ cfg.mode = WITH_PREVIOUS
                              THEN it.part \o it.dlm ELSE it.part
                      next_drag == IF ~it.isnone /\ cfg.mode = WITH_NEXT
                                   THEN it.dlm ELSE <<>>
                      out == IF part # <<>>
                             THEN << <<it.col - 2 * Len(dragged), dragged \o part>> >>
                             ELSE <<>>
                  IN  out \o isplit_mode_loop_carry_twice(dlms, line, Tail(items), next_drag,
                                                          cfg.stop)

\* the loop of isplit_mode over the items of isplit
RECURSIVE isplit_mode_loop(_, _, _, _, _)
isplit_mode_loop(dlms, line, items, dragged, break_next) ==
    IF items = <<>> THEN <<>>
    ELSE LET it == Head(items)
         IN  IF break_next
             THEN << <<it.col - Len(dragged),
                       dragged \o SubSeq(line, it.col + 1, Len(line))>> >>
             ELSE LET cfg == IF it.isnone THEN [dlm |-> <<>>, mode |-> SKIP, stop |-> FALSE]
                                          ELSE Lookup(dlms, it.dlm)
                      part == IF ~it.isnone /\ cfg.mode = WITH_PREVIOUS
                              THEN it.part \o it.dlm ELSE it.part
                      next_drag == IF ~it.isnone /\ cfg.mode = WITH_NEXT
                                   THEN it.dlm ELSE <<>>
                      out == IF part # <<>>
                             THEN << <<it.col - Len(dragged), dragged \o part>> >>
                             ELSE <<>>
                  IN  out \o isplit_mode_loop(dlms, line, Tail(items), next_drag, cfg.stop)

\* a split that goes on after a delimiter with the terminate flag
isplit_mode_unbroken(dlms, line) ==
    isplit_mode_loop([i \in 1..Len(dlms) |-> [dlms[i] EXCEPT !.stop = FALSE]], line,
                     isplit(dlms, line), <<>>, FALSE)

\* isplit_mode
isplit_mode(dlms, line) == isplit_mode_loop(dlms, line, isplit(dlms, line), <<>>, FALSE)

\* a from_line that leaves the statements as they are split
from_line_unstripped(strip, dlms, line) ==
    IF dlms # <<>> THEN isplit_mode(dlms, line) ELSE << <<0, line>> >>

\* StatementIterator.from_line for the class attributes _strip_spaces, _delimiters
from_line(strip, dlms, line) ==
    LET it == IF dlms # <<>> THEN isplit_mode(dlms, line) ELSE << <<0, line>> >>
    IN  IF strip THEN [i \in 1..Len(it) |-> <<it[i][1], Strip(it[i][2])>>] ELSE it

\* SequenceIterator.from_lines: (lineno, colno, s) for every non-empty s
RECURSIVE from_lines_from(_, _, _, _)
from_lines_from(strip, dlms, lns, lineno) ==
    IF lns = <<>> THEN <<>>
    ELSE LET sts == from_line(strip, dlms, Head(lns))
             tr == [i \in 1..Len(sts) |-> <<lineno, sts[i][1], sts[i][2]>>]
         IN  SelectSeq(tr, LAMBDA t : t[3] # <<>>)
             \o from_lines_from(strip, dlms, Tail(lns), lineno + 1)

from_lines(strip, dlms, lns) == from_lines_from(strip, dlms, lns, 0)

----------------------------------------------------------------------------
(* Iterators.  An iterator is [it, cache, hasher]: the elements the wrapped *)
(* iterator has still to yield, the lookahead deque, and the elements fed  *)
(* to the hasher so far.  An operation returns [stop, val, hsi]: whether   *)
(* StopIteration was raised, the value returned, and the iterator after.   *)

Raised(h) == [stop |-> TRUE, val |-> None, hsi |-> h]

Returned(v, h) == [stop |-> FALSE, val |-> v, hsi |-> h]

\* a peek that takes the element from the wrapped iterator and keeps no copy
peek_uncached(h) ==
    IF h.cache = <<>>
    THEN IF h.it = <<>> THEN Raised(h)
         ELSE Returned(Head(h.it), [h EXCEPT !.it = Tail(h.it)])
    ELSE Returned(h.cache[1], h)

\* a peek that feeds the element it fetches to the hasher
peek_hashed(h) ==
    IF h.cache = <<>>
    THEN IF h.it = <<>> THEN Raised(h)
         ELSE Returned(Head(h.it), [h EXCEPT !.cache = <<Head(h.it)>>, !.it = Tail(h.it),
                                             !.hasher = Append(@, Head(h.it))])
    ELSE Returned(h.cache[1], h)

\* BaseIterator.peek without default
peek(h) ==
    IF h.cache = <<>>
    THEN IF h.it = <<>> THEN Raised(h)
         ELSE Returned(Head(h.it), [h EXCEPT !.cache = <<Head(h.it)>>, !.it = Tail(h.it)])
    ELSE Returned(h.cache[1], h)

\* BaseIterator.peek(default): the default instead of StopIteration
peek_default(h, default) ==
    IF peek(h).stop THEN Returned(default, peek(h).hsi) ELSE peek(h)

\* BaseIterator.__next__
BaseIterator_next(h) ==
    IF h.cache # <<>> THEN Returned(Head(h.cache), [h EXCEPT !.cache = Tail(h.cache)])
    ELSE IF h.it = <<>> THEN Raised(h)
    ELSE Returned(Head(h.it), [h EXCEPT !.it = Tail(h.it)])

\* a hasher fed the text of the element without its line and column
HashIterator_update_text(el) ==
    IF el.stop THEN el
    ELSE Returned(el.val, [el.hsi EXCEPT !.hasher = Append(@, el.val[3])])

\* HashIterator.__next__
HashIterator_update(el) ==
    IF el.stop THEN el
    ELSE Returned(el.val, [el.hsi EXCEPT !.hasher = Append(@, el.val)])

HashIterator_next(h) == HashIterator_update(BaseIterator_next(h))

\* HashSequenceIterator(SequenceIterator.from_lines(...))
HashSequenceIterator(sic) == [it |-> sic, cache |-> <<>>, hasher |-> <<>>]

----------------------------------------------------------------------------
(* Block classes.  A grammar is [root, blocks]: the body classes of the    *)
(* root block class, and opening, body and closing classes of every other  *)
(* block class, each in declaration order.                                 *)

RootClass == "MyRoot"

BlockClasses == {"MyBlock", "Block2"}

IsRoot(cls) == cls = RootClass

IsBlockClass(cls) == cls \in BlockClasses \cup {RootClass}

\* Block.opening_classes (RootBlock: opening is Single[BOS])
opening_classes(g, cls) == IF IsRoot(cls) THEN <<"BOS">> ELSE g.blocks[cls].opening

\* Block.body_classes
body_classes(g, cls) == IF IsRoot(cls) THEN g.root ELSE g.blocks[cls].body

\* Block.closing_classes (RootBlock: closing is Single[EOS])
closing_classes(g, cls) == IF IsRoot(cls) THEN <<"EOS">> ELSE g.blocks[cls].closing

----------------------------------------------------------------------------
(* Consume *)

\* a consume that advances the iterator whatever the parse returned
ParsedStatement_consume_parsed_advancing(p, parsed_statement) ==
    IF IsNone(parsed_statement) THEN Returned(None, HashIterator_next(p.hsi).hsi)
    ELSE Returned(set_line_col(parsed_statement, p.val[1], p.val[2]),
                  HashIterator_next(p.hsi).hsi)

\* ParsedStatement.consume after `parsed_statement = cls.from_string_and_config(...)`;
\* p is what peek returned
ParsedStatement_consume_parsed(p, parsed_statement) ==
    IF IsNone(parsed_statement) THEN Returned(None, p.hsi)
    ELSE Returned(set_line_col(parsed_statement, p.val[1], p.val[2]),
                  HashIterator_next(p.hsi).hsi)

\* ParsedStatement.consume after `sequence_iterator.peek()`
ParsedStatement_consume_peeked(cls, p) ==
    IF p.stop THEN p
    ELSE ParsedStatement_consume_parsed(p, from_string_and_config(cls, p.val[3]))

\* ParsedStatement.consume
ParsedStatement_consume(cls, h) == ParsedStatement_consume_peeked(cls, peek(h))

\* the loop of Block.consume_opening over the opening classes
RECURSIVE Block_consume_opening_loop(_, _)
Block_consume_opening_el(classes, el) ==
    IF el.stop \/ ~IsNone(el.val) THEN el
    ELSE Block_consume_opening_loop(Tail(classes), el.hsi)

Block_consume_opening_loop(classes, h) ==
    IF classes = <<>> THEN Returned(None, h)
    ELSE Block_consume_opening_el(classes, ParsedStatement_consume(Head(classes), h))

\* a consume_opening that takes the statement off the iterator when no
\* opening class claims it
Block_consume_opening_advancing(g, cls, h) ==
    IF /\ ~Block_consume_opening_loop(opening_classes(g, cls), h).stop
       /\ IsNone(Block_consume_opening_loop(opening_classes(g, cls), h).val)
    THEN Returned(None,
                  HashIterator_next(Block_consume_opening_loop(opening_classes(g, cls), h).hsi).hsi)
    ELSE Block_consume_opening_loop(opening_classes(g, cls), h)

Block_consume_opening(g, cls, h) == Block_consume_opening_loop(opening_classes(g, cls), h)

\* the consume_opening of Block left in place for the root block: BOS is
\* offered the next statement
RootBlock_consume_opening_inherited(h) == Block_consume_opening_loop(<<"BOS">>, h)

\* RootBlock.consume_opening
RootBlock_consume_opening(h) == Returned(set_line_col(Element("BOS", <<>>), 0, 0), h)

consume_opening(g, cls, h) ==
    IF IsRoot(cls) THEN RootBlock_consume_opening(h) ELSE Block_consume_opening(g, cls, h)

\* the loop of Block.consume_closing over the closing classes
RECURSIVE Block_consume_closing_loop(_, _)
Block_consume_closing_el(classes, el) ==
    IF el.stop \/ ~IsNone(el.val) THEN el
    ELSE Block_consume_closing_loop(Tail(classes), el.hsi)

Block_consume_closing_loop(classes, h) ==
    IF classes = <<>> THEN Returned(None, h)
    ELSE Block_consume_closing_el(classes, ParsedStatement_consume(Head(classes), h))

Block_consume_closing(g, cls, h) == Block_consume_closing_loop(closing_classes(g, cls), h)

\* RootBlock.consume_closing
RootBlock_consume_closing(h) == Returned(None, h)

consume_closing(g, cls, h) ==
    IF IsRoot(cls) THEN RootBlock_consume_closing(h) ELSE Block_consume_closing(g, cls, h)

\* every block ends the way the root block does
on_stop_iteration_root(cls) == Element("EOS", <<>>)

\* the root block without its override
on_stop_iteration_base(cls) == UnexpectedEOF

\* Block.on_stop_iteration, RootBlock.on_stop_iteration
on_stop_iteration(cls) == IF IsRoot(cls) THEN Element("EOS", <<>>) ELSE UnexpectedEOF

\* an UnknownStatement made of the statement that peek gives: the statement
\* stays the next one of the iterator and is not hashed
Block_consume_body_unknown_peeked(el) ==
    IF el.stop
    THEN [stop |-> TRUE, val |-> None, hsi |-> el.hsi, enter |-> "", unknown |-> FALSE]
    ELSE [stop |-> FALSE, enter |-> "", unknown |-> TRUE,
          hsi |-> [it |-> el.hsi.it, cache |-> <<el.val>> \o el.hsi.cache,
                   hasher |-> SubSeq(el.hsi.hasher, 1, Len(el.hsi.hasher) - 1)],
          val |-> from_line_col_statement(el.val[1], el.val[2], el.val[3])]

\* Block.consume_body.  Returns [stop, val, hsi, enter, unknown]: a body
\* class that is a block class and whose opening matched is entered (enter is
\* its name, val its opening) and its own loop runs next; otherwise enter is
\* "".  unknown tells that no body class claimed the statement.
RECURSIVE Block_consume_body_loop(_, _, _)
Block_consume_body_unknown(el) ==
    IF el.stop
    THEN [stop |-> TRUE, val |-> None, hsi |-> el.hsi, enter |-> "", unknown |-> FALSE]
    ELSE [stop |-> FALSE, hsi |-> el.hsi, enter |-> "", unknown |-> TRUE,
          val |-> from_line_col_statement(el.val[1], el.val[2], el.val[3])]

Block_consume_body_el(g, classes, el) ==
    IF el.stop \/ ~IsNone(el.val)
    THEN [stop |-> el.stop, val |-> el.val, hsi |-> el.hsi, unknown |-> FALSE,
          enter |-> IF ~el.stop /\ IsBlockClass(Head(classes)) THEN Head(classes) ELSE ""]
    ELSE Block_consume_body_loop(g, Tail(classes), el.hsi)

Block_consume_body_loop(g, classes, h) ==
    IF classes = <<>> THEN Block_consume_body_unknown(HashIterator_next(h))
    ELSE Block_consume_body_el(g, classes,
            IF IsBlockClass(Head(classes)) THEN consume_opening(g, Head(classes), h)
            ELSE ParsedStatement_consume(Head(classes), h))

\* the body classes in the opposite order
Reversed(q) == [i \in 1..Len(q) |-> q[Len(q) + 1 - i]]

\* a consume_body that goes through the body classes from the last to the first
Block_consume_body_reversed(g, cls, h) ==
    Block_consume_body_loop(g, Reversed(body_classes(g, cls)), h)

\* a consume_body that asks the first body class and no other
Block_consume_body_first_class(g, cls, h) ==
    Block_consume_body_loop(g, SubSeq(body_classes(g, cls), 1, 1), h)

Block_consume_body(g, cls, h) == Block_consume_body_loop(g, body_classes(g, cls), h)

\* cls(opening, tuple(body), closing)
Block(cls, opening, body, closing) ==
    [node |-> "Block", cls |-> cls, opening |-> opening, body |-> body, closing |-> closing]

\* a new activation of Block.consume after its opening matched
Frame(cls, opening) == [cls |-> cls, opening |-> opening, body |-> <<>>]

Top(st) == st[Len(st)]

Pop(st) == SubSeq(st, 1, Len(st) - 1)

\* body.append(el) in the innermost activation
body_append(st, el) == [st EXCEPT ![Len(st)].body = Append(@, el)]

\* a return in which a closing statement closes the block around the
\* innermost one when there is one: the innermost block goes into its body
\* with UnexpectedEOF
Return_enclosing(st, closing, h) ==
    IF Len(st) >= 3 /\ closing.type \notin {"UnexpectedEOF", "EOS"}
    THEN [stack |-> body_append(
                        SubSeq(st, 1, Len(st) - 2),
                        Block(st[Len(st) - 1].cls, st[Len(st) - 1].opening,
                              Append(st[Len(st) - 1].body,
                                     Block(Top(st).cls, Top(st).opening, Top(st).body,
                                           UnexpectedEOF)),
                              closing)),
          hsi |-> h, pc |-> "loop", result |-> None]
    ELSE IF Len(st) = 1
    THEN [stack |-> <<>>, hsi |-> h, pc |-> "done",
          result |-> Block(Top(st).cls, Top(st).opening, Top(st).body, closing)]
    ELSE [stack |-> body_append(Pop(st), Block(Top(st).cls, Top(st).opening, Top(st).body,
                                               closing)),
          hsi |-> h, pc |-> "loop", result |-> None]

\* `return cls(opening, tuple(body), closing)`: the block goes to the caller,
\* which is consume_body of the enclosing block (it appends the block to its
\* body) or, for the root block, the parser.
Return(st, closing, h) ==
    LET f == Top(st)
        b == Block(f.cls, f.opening, f.body, closing)
    IN  IF Len(st) = 1
        THEN [stack |-> <<>>, hsi |-> h, pc |-> "done", result |-> b]
        ELSE [stack |-> body_append(Pop(st), b), hsi |-> h, pc |-> "loop", result |-> None]

Continue(st, h) == [stack |-> st, hsi |-> h, pc |-> "loop", result |-> None]

\* an iteration in which an error value from consume_body, once appended,
\* ends the block as the end of the stream does
Block_consume_el_error_closes(st, el) ==
    IF el.stop
    THEN [kind |-> "stop"] @@ Return(st, on_stop_iteration(Top(st).cls), el.hsi)
    ELSE IF el.enter # ""
    THEN [kind |-> "opening"] @@ Continue(Append(st, Frame(el.enter, el.val)), el.hsi)
    ELSE IF IsError(el.val) /\ Len(st) > 1
    THEN [kind |-> IF el.unknown THEN "unknown" ELSE "statement"]
         @@ Return(body_append(st, el.val), UnexpectedEOF, el.hsi)
    ELSE [kind |-> IF el.unknown THEN "unknown" ELSE "statement"]
         @@ Continue(body_append(st, el.val), el.hsi)

\* the rest of an iteration of the loop of Block.consume after
\* `el = cls.consume_body(...)`
Block_consume_el(st, el) ==
    IF el.stop
    THEN [kind |-> "stop"] @@ Return(st, on_stop_iteration(Top(st).cls), el.hsi)
    ELSE IF el.enter # ""
    THEN [kind |-> "opening"] @@ Continue(Append(st, Frame(el.enter, el.val)), el.hsi)
    ELSE [kind |-> IF el.unknown THEN "unknown" ELSE "statement"]
         @@ Continue(body_append(st, el.val), el.hsi)

\* an iteration that gives UnexpectedEOF to the innermost open block only:
\* a block whose last body element is a block left open ends with EOS
Block_consume_closed_innermost_only(g, st, closing) ==
    IF closing.stop
    THEN [kind |-> "stop"]
         @@ Return(st,
                   IF /\ Top(st).body # <<>>
                      /\ IsBlock(Top(st).body[Len(Top(st).body)])
                      /\ Top(st).body[Len(Top(st).body)].closing.type = "UnexpectedEOF"
                   THEN Element("EOS", <<>>)
                   ELSE on_stop_iteration(Top(st).cls),
                   closing.hsi)
    ELSE IF ~IsNone(closing.val)
    THEN [kind |-> "closing"] @@ Return(st, closing.val, closing.hsi)
    ELSE Block_consume_el(st, Block_consume_body(g, Top(st).cls, closing.hsi))

\* the rest of an iteration of the loop of Block.consume after
\* `closing = cls.consume_closing(...)`
Block_consume_closed(g, st, closing) ==
    IF closing.stop
    THEN [kind |-> "stop"] @@ Return(st, on_stop_iteration(Top(st).cls), closing.hsi)
    ELSE IF ~IsNone(closing.val)
    THEN [kind |-> "closing"] @@ Return(st, closing.val, closing.hsi)
    ELSE Block_consume_el(st, Block_consume_body(g, Top(st).cls, closing.hsi))

\* an iteration that offers the statement to the body classes before the
\* closing classes
Block_consume_body_first_el(g, st, h, el) ==
    IF ~el.stop /\ ~el.unknown THEN Block_consume_el(st, el)
    ELSE Block_consume_closed(g, st, consume_closing(g, Top(st).cls, h))

Block_consume_iteration_body_first(g, st, h) ==
    Block_consume_body_first_el(g, st, h, Block_consume_body(g, Top(st).cls, h))

\* One iteration of the `while closing is None` loop of Block.consume in the
\* innermost activation; kind tells which path the iteration took.
Block_consume_iteration(g, st, h) ==
    Block_consume_closed(g, st, consume_closing(g, Top(st).cls, h))

----------------------------------------------------------------------------
(* Inputs *)

\* source lines
Lines ==
    { <<"@", "b", "e", "g", "i", "n">>,
      <<"@", "e", "n", "d">>,
      <<" ", "#", "h">>,
      <<"x", "=", "1">>,
      <<"x", "=", "f">>,
      <<"#", "=", "1">>,
      <<"?", ";", "x", "=", "f">>,
      <<" ">>,
      <<"@", "b", "e", "g", "i", "n", ";", "@", "e", "n", "d">> }

NoBlock == [opening |-> <<>>, body |-> <<>>, closing |-> <<>>]

\* testsuite/common.py: MyBlock
MyBlock == [opening |-> <<"Open">>, body |-> <<"Comment", "EqualFloat">>,
            closing |-> <<"Close">>]

\* testsuite/common.py: MyRoot
G_MyRoot == [root |-> <<"Comment", "EqualFloat">>,
             blocks |-> [MyBlock |-> NoBlock, Block2 |-> NoBlock]]

\* MyRoot with the body classes declared in the other order
G_Swapped == [root |-> <<"EqualFloat", "Comment">>,
              blocks |-> [MyBlock |-> NoBlock, Block2 |-> NoBlock]]

\* a root block with MyBlock in its body
G_WithBlock == [root |-> <<"MyBlock", "Comment", "EqualFloat">>,
                blocks |-> [MyBlock |-> MyBlock, Block2 |-> NoBlock]]

\* a block class that lists itself in its body
G_Nested == [root |-> <<"MyBlock", "Comment", "EqualFloat">>,
             blocks |-> [MyBlock |-> [MyBlock EXCEPT !.body = <<"MyBlock">> \o @],
                         Block2 |-> NoBlock]]

\* closing classes that body classes, and the opening of a nested block,
\* would claim as well
G_Overlap ==
    [root |-> <<"MyBlock", "Block2", "Comment">>,
     blocks |-> [MyBlock |-> [opening |-> <<"Open">>,
                              body |-> <<"Block2", "Close", "Comment", "EqualFloat">>,
                              closing |-> <<"Close", "EqualFloat">>],
                 Block2 |-> [opening |-> <<"Close">>, body |-> <<"Comment">>,
                             closing |-> <<"Open">>]]]

\* a root block without body classes
G_Empty == [root |-> <<>>, blocks |-> [MyBlock |-> NoBlock, Block2 |-> NoBlock]]

Semicolon == << [dlm |-> <<";">>, mode |-> SKIP, stop |-> FALSE] >>

\* the grammars and StatementIterator subclasses parsed with
Setups ==
    { [grammar |-> G_MyRoot, strip_spaces |-> TRUE, delimiters |-> <<>>],
      [grammar |-> G_Swapped, strip_spaces |-> TRUE, delimiters |-> <<>>],
      [grammar |-> G_WithBlock, strip_spaces |-> TRUE, delimiters |-> <<>>],
      [grammar |-> G_WithBlock, strip_spaces |-> FALSE, delimiters |-> Semicolon],
      [grammar |-> G_Nested, strip_spaces |-> TRUE, delimiters |-> Semicolon],
      [grammar |-> G_Overlap, strip_spaces |-> TRUE, delimiters |-> <<>>],
      [grammar |-> G_Empty, strip_spaces |-> FALSE, delimiters |-> <<>>] }

----------------------------------------------------------------------------
(* The parse of one source *)

\* Parser.parse_file up to self.consume(hsi)
Init ==
    /\ \E s \in Setups :
        /\ grammar = s.grammar
        /\ strip_spaces = s.strip_spaces
        /\ delimiters = s.delimiters
    /\ lines \in UNION {[1..n -> Lines] : n \in 0..MaxLines}
    /\ hsi = HashSequenceIterator(from_lines(strip_spaces, delimiters, lines))
    /\ stack = <<>>
    /\ pc = "start"
    /\ result = None
    /\ calls = <<>>
    /\ statements = <<>>
    /\ files = <<>>
    /\ parsed = <<>>
    /\ pp = <<>>
    /\ pending = <<>>

\* RootBlock.consume up to the loop of Block.consume
RootBlock_consume ==
    /\ pc = "start"
    /\ stack' = <<Frame(RootClass, consume_opening(grammar, RootClass, hsi).val)>>
    /\ hsi' = consume_opening(grammar, RootClass, hsi).hsi
    /\ pc' = "loop"
    /\ UNCHANGED <<lines, grammar, strip_spaces, delimiters, result>>
    /\ UNCHANGED vars_beyond

\* the state after an iteration of the loop of Block.consume that took the
\* path `kind`
Becomes(o, kind) ==
    /\ o.kind = kind
    /\ stack' = o.stack
    /\ hsi' = o.hsi
    /\ pc' = o.pc
    /\ result' = o.result

\* a closing class claims the statement: the block is returned
CommitClosing ==
    /\ pc = "loop"
    /\ Becomes(Block_consume_iteration(grammar, stack, hsi), "closing")
    /\ UNCHANGED <<lines, grammar, strip_spaces, delimiters>>
    /\ UNCHANGED vars_beyond

\* a body statement class claims the statement
CommitStatement ==
    /\ pc = "loop"
    /\ Becomes(Block_consume_iteration(grammar, stack, hsi), "statement")
    /\ UNCHANGED <<lines, grammar, strip_spaces, delimiters>>
    /\ UNCHANGED vars_beyond

\* the opening of a block class of the body claims the statement
CommitOpening ==
    /\ pc = "loop"
    /\ Becomes(Block_consume_iteration(grammar, stack, hsi), "opening")
    /\ UNCHANGED <<lines, grammar, strip_spaces, delimiters>>
    /\ UNCHANGED vars_beyond

\* no class claims the statement
CommitUnknown ==
    /\ pc = "loop"
    /\ Becomes(Block_consume_iteration(grammar, stack, hsi), "unknown")
    /\ UNCHANGED <<lines, grammar, strip_spaces, delimiters>>
    /\ UNCHANGED vars_beyond

\* StopIteration is caught: the block is returned
StopIteration ==
    /\ pc = "loop"
    /\ Becomes(Block_consume_iteration(grammar, stack, hsi), "stop")
    /\ UNCHANGED <<lines, grammar, strip_spaces, delimiters>>
    /\ UNCHANGED vars_beyond

Next ==
    \/ RootBlock_consume
    \/ CommitClosing
    \/ CommitStatement
    \/ CommitOpening
    \/ CommitUnknown
    \/ StopIteration

Spec == Init /\ [][Next]_vars

----------------------------------------------------------------------------
(* Whole parses *)

\* the loop of Block.consume run to the return of the root block
RECURSIVE Run(_, _, _)
Run_next(g, o) == IF o.pc = "done" THEN o.result ELSE Run(g, o.stack, o.hsi)

Run(g, st, h) == Run_next(g, Block_consume_iteration(g, st, h))

\* Parser.consume: the root block of the sequence of triples
Parser_consume(g, sic) ==
    Run(g, <<Frame(RootClass, consume_opening(g, RootClass, HashSequenceIterator(sic)).val)>>,
        consume_opening(g, RootClass, HashSequenceIterator(sic)).hsi)

\* Block.__iter__: the opening, the body elements with the elements of a
\* nested block in the place of the block, the closing
RECURSIVE Block_iter(_)
RECURSIVE Block_iter_body(_)
\* a loop over the body that yields a nested block as one element
Block_iter_body_shallow(body) == body

Block_iter_body(body) ==
    IF body = <<>> THEN <<>>
    ELSE (IF IsBlock(Head(body)) THEN Block_iter(Head(body)) ELSE <<Head(body)>>)
         \o Block_iter_body(Tail(body))

Block_iter(b) == <<b.opening>> \o Block_iter_body(b.body) \o <<b.closing>>

\* Block.filter_by: the elements of the iteration that are instances of
\* one of the classes
filter_by(b, types) == SelectSeq(Block_iter(b), LAMBDA el : el.type \in types)

\* errors taken from the block's own opening, body elements and closing
Block_errors_shallow(b) ==
    SelectSeq(<<b.opening>> \o b.body \o <<b.closing>>, LAMBDA el : IsError(el))

\* Block.errors
Block_errors(b) == filter_by(b, ErrorTypes)

\* Block.has_errors
Block_has_errors(b) == Block_errors(b) # <<>>

\* the iterations of the loops of Block.consume from the activations st and
\* the iterator h on, in the order they are made, up to the return of the
\* root block and no more than fuel of them
RECURSIVE Iterations(_, _, _, _)
Iterations_next(g, o, fuel) ==
    <<o>> \o (IF o.pc = "done" THEN <<>> ELSE Iterations(g, o.stack, o.hsi, fuel - 1))

Iterations(g, st, h, fuel) ==
    IF fuel = 0 THEN <<>> ELSE Iterations_next(g, Block_consume_iteration(g, st, h), fuel)

\* more iterations than a parse of the triples makes when every iteration
\* takes a triple or returns a block
Fuel(sic) == 2 * Len(sic) + 2

\* Parser.parse_file up to self.consume(hsi), the iterations to come kept
\* in `pending`
InitRun ==
    /\ \E s \in Setups :
        /\ grammar = s.grammar
        /\ strip_spaces = s.strip_spaces
        /\ delimiters = s.delimiters
    /\ lines \in UNION {[1..n -> Lines] : n \in 0..MaxLines}
    /\ hsi = HashSequenceIterator(from_lines(strip_spaces, delimiters, lines))
    /\ pending = Iterations(grammar,
                            <<Frame(RootClass, consume_opening(grammar, RootClass, hsi).val)>>,
                            consume_opening(grammar, RootClass, hsi).hsi,
                            Fuel(from_lines(strip_spaces, delimiters, lines)))
    /\ stack = <<>>
    /\ pc = "start"
    /\ result = None
    /\ calls = <<>>
    /\ statements = <<>>
    /\ files = <<>>
    /\ parsed = <<>>
    /\ pp = <<>>

\* RootBlock.consume up to the loop of Block.consume
Begin ==
    /\ pc = "start"
    /\ stack' = <<Frame(RootClass, consume_opening(grammar, RootClass, hsi).val)>>
    /\ hsi' = consume_opening(grammar, RootClass, hsi).hsi
    /\ pc' = "loop"
    /\ UNCHANGED <<lines, grammar, strip_spaces, delimiters, result, pending>>
    /\ UNCHANGED <<calls, statements, files, parsed, pp>>

\* an iteration of the loop of Block.consume in the innermost activation
Iterate ==
    /\ pc = "loop"
    /\ pending # <<>>
    /\ stack' = Head(pending).stack
    /\ hsi' = Head(pending).hsi
    /\ pc' = Head(pending).pc
    /\ result' = Head(pending).result
    /\ pending' = Tail(pending)
    /\ UNCHANGED <<lines, grammar, strip_spaces, delimiters>>
    /\ UNCHANGED <<calls, statements, files, parsed, pp>>

NextRun == Begin \/ Iterate

SpecRun == InitRun /\ [][NextRun]_vars

\* the loop runs on as long as it has an iteration to make: nothing else
\* runs during Parser.consume
SpecRunFair == SpecRun /\ WF_vars(NextRun)

----------------------------------------------------------------------------
(* Parsed sources and projects *)

\* the iterator when the root block is returned
RECURSIVE Exhaust(_, _, _)
Exhaust_next(g, o) == IF o.pc = "done" THEN o.hsi ELSE Exhaust(g, o.stack, o.hsi)

Exhaust(g, st, h) == Exhaust_next(g, Block_consume_iteration(g, st, h))

Parser_consumed(g, sic) ==
    Exhaust(g, <<Frame(RootClass, consume_opening(g, RootClass, HashSequenceIterator(sic)).val)>>,
            consume_opening(g, RootClass, HashSequenceIterator(sic)).hsi)

\* HashIterator.hexdigest: SHA-1 of the pickles fed so far, kept as the
\* sequence of the elements fed (the digest is taken as injective)
hexdigest(h) == h.hasher

\* Parser.parse_file: the ParsedSourceFile of the lines of the file at path
\* (config and mtime are carried along and left out)
parse_file(g, strip, dlms, path, lns) ==
    [parsed_source |-> Parser_consume(g, from_lines(strip, dlms, lns)),
     content_hash |-> hexdigest(Parser_consumed(g, from_lines(strip, dlms, lns))),
     filename |-> path]

\* ParsedSourceFile.origin
origin(parsed_common) == parsed_common.filename

\* _ParsedCommon.has_errors
ParsedCommon_has_errors(parsed_common) == Block_has_errors(parsed_common.parsed_source)

\* A ParsedProject is a dict, kept as the sequence of its [key, value] items
\* in insertion order.  The key None of the root is the empty tuple, the
\* other keys are (origin, target).
RootKey == <<>>

dict_keys(d) == {d[i].key : i \in 1..Len(d)}

dict_get(d, k) == d[CHOOSE i \in 1..Len(d) : d[i].key = k].value

\* a mapping that takes every assignment as a new item
dict_set_append(d, k, v) == Append(d, [key |-> k, value |-> v])

\* d[k] = v
dict_set(d, k, v) ==
    IF k \in dict_keys(d)
    THEN [i \in 1..Len(d) |-> IF d[i].key = k THEN [key |-> k, value |-> v] ELSE d[i]]
    ELSE Append(d, [key |-> k, value |-> v])

\* a list that takes the new items at its front
extend_front(list, items) == items \o list

\* list.extend
extend(list, items) == list \o items

\* ParsedProject.has_errors
ParsedProject_has_errors(d) == \E i \in 1..Len(d) : ParsedCommon_has_errors(d[i].value)

\* _ParsedCommon.localized_errors: `for err in self.parsed_source.errors: yield err`
ParsedCommon_localized_errors(parsed_common) == Block_errors(parsed_common.parsed_source)

RECURSIVE ParsedProject_localized_errors(_)

\* ParsedProject.localized_errors: yield from el.localized_errors() for the
\* values of the dict in their order
ParsedProject_localized_errors(d) ==
    IF d = <<>> THEN <<>>
    ELSE ParsedCommon_localized_errors(Head(d).value)
         \o ParsedProject_localized_errors(Tail(d))

\* default_locator for files of one directory: the path of the target in
\* the directory of the including file; [raised, path]
default_locator(source_location, tgt) ==
    IF tgt # <<>> /\ Head(tgt) = "/" THEN [raised |-> TRUE, path |-> <<>>]
    ELSE IF StartsWith(tgt, <<".", ".">>) THEN [raised |-> TRUE, path |-> <<>>]
    ELSE [raised |-> FALSE, path |-> tgt]

\* (parsed.origin, el.target) for el in parsed.parsed_source.filter_by(IncludeStatement)
includes_of(org, els) == [i \in 1..Len(els) |-> <<org, target(els[i])>>]

\* the include statements that are elements of the root block's own body
includes_shallow(parsed_common) ==
    includes_of(origin(parsed_common),
                SelectSeq(parsed_common.parsed_source.body,
                          LAMBDA el : ~IsBlock(el) /\ el.type \in IncludeTypes))

includes(parsed_common) ==
    includes_of(origin(parsed_common), filter_by(parsed_common.parsed_source, IncludeTypes))

\* what a generator has done when it is exhausted or raises: the values
\* yielded so far, whether it ended by raising, and the set `seen`
Yielded(raised, yielded, seen) == [raised |-> raised, yielded |-> yielded, seen |-> seen]

\* `yield parsed_statement` before the rest of the loop
yield_first(el, r) == [r EXCEPT !.yielded = <<el>> \o @]

RECURSIVE ParsedProject__iter_statements(_, _, _, _, _)

\* the statements of the included source put after those of the including one
yield_from_after(self, psf, rest, inner, include_only_once) ==
    IF inner.raised THEN inner
    ELSE [ParsedProject__iter_statements(self, psf, rest, inner.seen, include_only_once)
            EXCEPT !.yielded = @ \o inner.yielded]

\* `yield from self._iter_statements(...)`, then the rest of the loop with
\* the `seen` the inner generator has left; a raise inside ends everything
yield_from(self, psf, rest, inner, include_only_once) ==
    IF inner.raised THEN inner
    ELSE [ParsedProject__iter_statements(self, psf, rest, inner.seen, include_only_once)
            EXCEPT !.yielded = inner.yielded \o @]

\* for parsed_statement in parsed.parsed_source, from the statements `stmts` on
ParsedProject__iter_statements(self, psf, stmts, seen, include_only_once) ==
    IF stmts = <<>> THEN Yielded(FALSE, <<>>, seen)
    ELSE IF Head(stmts).type \in IncludeTypes
    THEN IF <<origin(psf), target(Head(stmts))>> \in seen /\ include_only_once
         THEN Yielded(TRUE, <<>>, seen)
         ELSE yield_from(self, psf, Tail(stmts),
                         ParsedProject__iter_statements(
                             self,
                             dict_get(self, <<origin(psf), target(Head(stmts))>>),
                             Block_iter(dict_get(self, <<origin(psf), target(Head(stmts))>>).parsed_source),
                             seen \cup {<<origin(psf), target(Head(stmts))>>},
                             include_only_once),
                         include_only_once)
    ELSE yield_first(Head(stmts),
                     ParsedProject__iter_statements(self, psf, Tail(stmts), seen,
                                                    include_only_once))

\* ParsedProject.iter_statements
iter_statements(self, include_only_once) ==
    ParsedProject__iter_statements(self, dict_get(self, RootKey),
                                   Block_iter(dict_get(self, RootKey).parsed_source),
                                   {RootKey}, include_only_once)

----------------------------------------------------------------------------
(* The parse of a project: parse(entry_point, spec) *)

PathA == <<"A">>

PathB == <<"B">>

PathC == <<"C">>

ProjectLines ==
    { <<"@", "i", "m", "p", "o", "r", "t", " ", "B">>,
      <<"@", "i", "m", "p", "o", "r", "t", " ", "C">>,
      <<"@", "b", "e", "g", "i", "n">>,
      <<"x", "=", "f">> }

ProjectSources == UNION {[1..n -> ProjectLines] : n \in 0..MaxFileLines}

\* a block class that takes includes in its body
G_Project ==
    [root |-> <<"ImportDefinition", "MyBlock", "Comment", "EqualFloat">>,
     blocks |-> [MyBlock |-> [MyBlock EXCEPT !.body = <<"ImportDefinition">> \o @],
                 Block2 |-> NoBlock]]

\* the directories parsed from: A and B are there, C may be
FileSystems ==
    {[p \in {PathA, PathB} |-> IF p = PathA THEN a ELSE b] : a, b \in ProjectSources}
    \cup
    {[p \in {PathA, PathB, PathC} |-> IF p = PathA THEN a ELSE IF p = PathB THEN b ELSE c] :
        a, b \in ProjectSources,
        c \in {<<>>, << <<" ", "#", "h">>, <<"x", "=", "f">> >>,
               << <<"@", "i", "m", "p", "o", "r", "t", " ", "B">> >>}}

\* parse up to `pp = ParsedProject()`: the parser of a tuple of classes with
\* the default strip_spaces and delimiters
InitProject ==
    /\ grammar = G_Project
    /\ strip_spaces = TRUE
    /\ delimiters = <<>>
    /\ files \in FileSystems
    /\ pp = <<>>
    /\ pending = <<>>
    /\ pc = "start"
    /\ lines = <<>>
    /\ hsi = HashSequenceIterator(<<>>)
    /\ stack = <<>>
    /\ result = <<>>
    /\ calls = <<>>
    /\ statements = [include_only_once |-> FALSE, raised |-> FALSE, yielded |-> <<>>]
    /\ parsed = [p \in DOMAIN files |->
                   parse_file(grammar, strip_spaces, delimiters, p, files[p])]

\* Parser.parse of a path
Parser_parse(path) == parse_file(grammar, strip_spaces, delimiters, path, files[path])

\* what parser.parse(path) returns: the files do not change while parse runs,
\* so the record of each file is the one held in `parsed`
Parsed(path) == parsed[path]

\* pp[None] = parsed = parser.parse(entry_point); pending.extend(...)
ParseEntry ==
    /\ pc = "start"
    /\ pp' = dict_set(pp, RootKey, Parsed(PathA))
    /\ pending' = extend(pending, includes(Parsed(PathA)))
    /\ pc' = "pending"
    /\ UNCHANGED <<lines, grammar, strip_spaces, delimiters, hsi, stack, result>>
    /\ UNCHANGED <<calls, statements, files, parsed>>

\* the include at the head of `pending` leads to a file
Located(item) ==
    /\ ~default_locator(item[1], item[2]).raised
    /\ default_locator(item[1], item[2]).path \in DOMAIN files

\* an iteration of `while pending`
ParseIncluded ==
    /\ pc = "pending"
    /\ pending # <<>>
    /\ Located(Head(pending))
    /\ Len(extend(Tail(pending),
                  includes(Parsed(default_locator(Head(pending)[1], Head(pending)[2]).path))))
         <= MaxPending
    /\ pp' = dict_set(pp, Head(pending),
                      Parsed(default_locator(Head(pending)[1], Head(pending)[2]).path))
    /\ pending' = extend(Tail(pending),
                         includes(Parsed(default_locator(Head(pending)[1], Head(pending)[2]).path)))
    /\ UNCHANGED <<lines, grammar, strip_spaces, delimiters, hsi, stack, pc, result>>
    /\ UNCHANGED <<calls, statements, files, parsed>>

\* the locator or the opening of the file raises and parse is left
RaiseFromParse ==
    /\ pc = "pending"
    /\ pending # <<>>
    /\ ~Located(Head(pending))
    /\ pc' = "raised"
    /\ pending' = Tail(pending)
    /\ UNCHANGED <<lines, grammar, strip_spaces, delimiters, hsi, stack, result>>
    /\ UNCHANGED <<calls, statements, files, parsed, pp>>

\* return pp
ReturnProject ==
    /\ pc = "pending"
    /\ pending = <<>>
    /\ pc' = "done"
    /\ UNCHANGED <<lines, grammar, strip_spaces, delimiters, hsi, stack, result>>
    /\ UNCHANGED <<calls, statements, files, parsed, pp, pending>>

\* the caller exhausts pp.iter_statements(include_only_once)
IterStatements ==
    /\ pc = "done"
    /\ \E include_only_once \in BOOLEAN :
          statements' = [include_only_once |-> include_only_once,
                         raised |-> iter_statements(pp, include_only_once).raised,
                         yielded |-> iter_statements(pp, include_only_once).yielded]
    /\ pc' = "iterated"
    /\ UNCHANGED <<lines, grammar, strip_spaces, delimiters, hsi, stack, result>>
    /\ UNCHANGED <<calls, files, parsed, pp, pending>>

\* the caller exhausts pp.localized_errors()
LocalizedErrors ==
    /\ pc = "done"
    /\ result' = ParsedProject_localized_errors(pp)
    /\ pc' = "localized"
    /\ UNCHANGED <<lines, grammar, strip_spaces, delimiters, hsi, stack>>
    /\ UNCHANGED <<calls, statements, files, parsed, pp, pending>>

NextProject ==
    \/ ParseEntry
    \/ ParseIncluded
    \/ RaiseFromParse
    \/ ReturnProject
    \/ IterStatements
    \/ LocalizedErrors

SpecProject == InitProject /\ [][NextProject]_vars

\* parse is one sequential function: while it has a next step, it takes it
SpecProjectFair == SpecProject /\ WF_vars(NextProject)

----------------------------------------------------------------------------
(* Two sources parsed by one parser: Parser.parse_file of each, the        *)
(* records kept in `parsed` in the order parsed                             *)

HashLines ==
    { <<"a">>, <<" ", "a">>, <<"a", ";", "b">>, <<"a", " ", ";", "b">>,
      <<"a", ";", ";", "b">>, <<" ">>, <<>> }

HashSources == UNION {[1..n -> HashLines] : n \in 0..MaxFileLines}

InitHash ==
    /\ grammar = G_MyRoot
    /\ strip_spaces = TRUE
    /\ delimiters = Semicolon
    /\ files \in [{PathA, PathB} -> HashSources]
    /\ parsed = <<>>
    /\ pc = "start"
    /\ lines = <<>>
    /\ hsi = HashSequenceIterator(<<>>)
    /\ stack = <<>>
    /\ result = None
    /\ calls = <<>>
    /\ statements = <<>>
    /\ pp = <<>>
    /\ pending = <<>>

\* parser.parse_file(A)
ParseFirst ==
    /\ pc = "start"
    /\ parsed' = Append(parsed, Parser_parse(PathA))
    /\ pc' = "first"
    /\ UNCHANGED <<lines, grammar, strip_spaces, delimiters, hsi, stack, result>>
    /\ UNCHANGED <<calls, statements, files, pp, pending>>

\* parser.parse_file(B)
ParseSecond ==
    /\ pc = "first"
    /\ parsed' = Append(parsed, Parser_parse(PathB))
    /\ pc' = "hashed"
    /\ UNCHANGED <<lines, grammar, strip_spaces, delimiters, hsi, stack, result>>
    /\ UNCHANGED <<calls, statements, files, pp, pending>>

NextHash ==
    \/ ParseFirst
    \/ ParseSecond

SpecHash == InitHash /\ [][NextHash]_vars

----------------------------------------------------------------------------
(* The split of one line: isplit_mode(delimiters, line), the pairs it      *)
(* yields kept in `statements`                                              *)

SplitChars == {"a", "!", "#"}

SplitLines == UNION {[1..n -> SplitChars] : n \in 0..MaxLineLen}

DelimiterModes == {SKIP, WITH_PREVIOUS, WITH_NEXT}

\* the delimiter dicts: "!" alone, or "!" and "#", with every mode and flag
DelimiterDicts ==
    { << [dlm |-> <<"!">>, mode |-> m, stop |-> b] >> : m \in DelimiterModes, b \in BOOLEAN }
    \cup
    { << [dlm |-> <<"!">>, mode |-> m1, stop |-> b1], [dlm |-> <<"#">>, mode |-> m2, stop |-> b2] >> :
        m1 \in DelimiterModes, b1 \in BOOLEAN, m2 \in DelimiterModes, b2 \in BOOLEAN }

InitSplit ==
    /\ delimiters \in DelimiterDicts
    /\ lines \in {<<l>> : l \in SplitLines}
    /\ statements = <<>>
    /\ pc = "line"
    /\ grammar = G_Empty
    /\ strip_spaces = FALSE
    /\ hsi = HashSequenceIterator(<<>>)
    /\ stack = <<>>
    /\ result = None
    /\ calls = <<>>
    /\ files = <<>>
    /\ parsed = <<>>
    /\ pp = <<>>
    /\ pending = <<>>

\* tuple(isplit_mode(delimiters, line))
SplitLine ==
    /\ pc = "line"
    /\ statements' = isplit_mode(delimiters, lines[1])
    /\ pc' = "split"
    /\ UNCHANGED <<lines, grammar, strip_spaces, delimiters, hsi, stack, result>>
    /\ UNCHANGED <<calls, files, parsed, pp, pending>>

NextSplit == SplitLine

SpecSplit == InitSplit /\ [][NextSplit]_vars

----------------------------------------------------------------------------
(* Calls on an iterator: any interleaving of peek and next on a            *)
(* HashSequenceIterator; `calls` is the record of what each call returned  *)

IterLines == { <<"a">>, <<"a", ";", "b">>, <<" ">> }

InitIter ==
    /\ grammar = G_Empty
    /\ strip_spaces = TRUE
    /\ delimiters = Semicolon
    /\ lines \in UNION {[1..n -> IterLines] : n \in 0..MaxLines}
    /\ hsi = HashSequenceIterator(from_lines(strip_spaces, delimiters, lines))
    /\ calls = <<>>
    /\ pc = "iter"
    /\ stack = <<>>
    /\ result = None
    /\ statements = <<>>
    /\ files = <<>>
    /\ parsed = <<>>
    /\ pp = <<>>
    /\ pending = <<>>

\* the default handed to peek: a value that is no element of the iterator
Default == <<>>

Called(op, r) == [op |-> op, stop |-> r.stop, val |-> r.val]

\* sequence_iterator.peek()
CallPeek ==
    /\ pc = "iter"
    /\ Len(calls) < MaxCalls
    /\ calls' = Append(calls, Called("peek", peek(hsi)))
    /\ hsi' = peek(hsi).hsi
    /\ UNCHANGED <<lines, grammar, strip_spaces, delimiters, stack, pc, result>>
    /\ UNCHANGED <<statements, files, parsed, pp, pending>>

\* sequence_iterator.peek(default)
CallPeekDefault ==
    /\ pc = "iter"
    /\ Len(calls) < MaxCalls
    /\ calls' = Append(calls, Called("peek_default", peek_default(hsi, Default)))
    /\ hsi' = peek_default(hsi, Default).hsi
    /\ UNCHANGED <<lines, grammar, strip_spaces, delimiters, stack, pc, result>>
    /\ UNCHANGED <<statements, files, parsed, pp, pending>>

\* next(sequence_iterator)
CallNext ==
    /\ pc = "iter"
    /\ Len(calls) < MaxCalls
    /\ calls' = Append(calls, Called("next", HashIterator_next(hsi)))
    /\ hsi' = HashIterator_next(hsi).hsi
    /\ UNCHANGED <<lines, grammar, strip_spaces, delimiters, stack, pc, result>>
    /\ UNCHANGED <<statements, files, parsed, pp, pending>>

NextIter ==
    \/ CallPeek
    \/ CallPeekDefault
    \/ CallNext

SpecIter == InitIter /\ [][NextIter]_vars

----------------------------------------------------------------------------
(* Reading the state *)

\* the elements next() has still to return: the lookahead, then the rest
Remaining(h) == h.cache \o h.it

Last(q) == q[Len(q)]

Position(el) == <<el.lineno, el.colno>>

TriplePosition(t) == <<t[1], t[2]>>

\* the class's parse of the statement is not None
Claims(cls, s) == ~IsNone(from_string_and_config(cls, s))

ClaimedByAny(classes, s) == \E i \in 1..Len(classes) : Claims(classes[i], s)

\* a body class claims the statement: a statement class by its parse, a
\* block class by one of its opening classes
BodyClaims(g, cls, s) ==
    IF IsBlockClass(cls) THEN ClaimedByAny(opening_classes(g, cls), s) ELSE Claims(cls, s)

BodyClaimedByAny(g, classes, s) == \E i \in 1..Len(classes) : BodyClaims(g, classes[i], s)

\* the innermost open block is not the root block and one of its closing
\* classes claims the next statement
ClosingClaimsNext ==
    /\ pc = "loop"
    /\ ~IsRoot(Top(stack).cls)
    /\ Remaining(hsi) # <<>>
    /\ ClaimedByAny(closing_classes(grammar, Top(stack).cls), Remaining(hsi)[1][3])

\* no closing class of the innermost open block claims the next statement
\* (the root block offers it to none)
NoClosingClaimsNext ==
    /\ pc = "loop"
    /\ Remaining(hsi) # <<>>
    /\ \/ IsRoot(Top(stack).cls)
       \/ ~ClaimedByAny(closing_classes(grammar, Top(stack).cls), Remaining(hsi)[1][3])

\* exactly the next element went from the iterator to the hasher
ConsumedOne ==
    /\ hsi'.hasher = Append(hsi.hasher, Remaining(hsi)[1])
    /\ Remaining(hsi') = Tail(Remaining(hsi))

----------------------------------------------------------------------------
(* The parse of a source split by any delimiter dict: a line of SplitLines, *)
(* or the line twice, parsed by a root block whose body is a block that a   *)
(* Comment opens                                                            *)

\* a root block with a block that opens with a Comment and closes with Close
G_Hash == [root |-> <<"MyBlock">>,
           blocks |-> [MyBlock |-> [opening |-> <<"Comment">>, body |-> <<"Comment">>,
                                    closing |-> <<"Close">>],
                       Block2 |-> NoBlock]]

InitNodes ==
    /\ delimiters \in DelimiterDicts
    /\ lines \in {<<l>> : l \in SplitLines} \cup {<<l, l>> : l \in SplitLines}
    /\ grammar = G_Hash
    /\ strip_spaces = FALSE
    /\ pc = "source"
    /\ hsi = HashSequenceIterator(<<>>)
    /\ stack = <<>>
    /\ result = None
    /\ statements = <<>>
    /\ calls = <<>>
    /\ files = <<>>
    /\ parsed = <<>>
    /\ pp = <<>>
    /\ pending = <<>>

\* Parser.parse_file: the triples of the lines and the root block of them
ParseLines ==
    /\ pc = "source"
    /\ statements' = from_lines(strip_spaces, delimiters, lines)
    /\ result' = Parser_consume(grammar, from_lines(strip_spaces, delimiters, lines))
    /\ pc' = "nodes"
    /\ UNCHANGED <<lines, grammar, strip_spaces, delimiters, hsi, stack>>
    /\ UNCHANGED <<calls, files, parsed, pp, pending>>

NextNodes == ParseLines

SpecNodes == InitNodes /\ [][NextNodes]_vars

----------------------------------------------------------------------------
(* Claims *)

\* C1: in a block other than the root block (which overrides consume_closing
\* to offer the statement to no class), whenever a closing class claims the
\* next triple, the iteration commits that triple as the block's closing and
\* returns the block to the enclosing block, whatever the body classes and
\* the openings of the nested blocks would have made of the triple.
C1_ClosingBeforeBody ==
    [][ClosingClaimsNext =>
            /\ Len(stack') = Len(stack) - 1
            /\ Pop(stack') = Pop(Pop(stack))
            /\ Top(stack').cls = stack[Len(stack) - 1].cls
            /\ Top(stack').body # <<>>
            /\ Last(Top(stack').body).node = "Block"
            /\ Last(Top(stack').body).cls = Top(stack).cls
            /\ Last(Top(stack').body).opening = Top(stack).opening
            /\ Last(Top(stack').body).body = Top(stack).body
            /\ Last(Top(stack').body).closing.type \notin {"UnexpectedEOF", "UnknownStatement"}
            /\ Position(Last(Top(stack').body).closing) = TriplePosition(Remaining(hsi)[1])
            /\ ConsumedOne
       ]_vars

\* a block was just closed by a statement that one of its body classes
\* claims as well
C1_Witness ==
    /\ pc = "loop"
    /\ Top(stack).body # <<>>
    /\ Last(Top(stack).body).node = "Block"
    /\ Last(Top(stack).body).closing.type # "UnexpectedEOF"
    /\ Position(Last(Top(stack).body).closing) = TriplePosition(Last(hsi.hasher))
    /\ BodyClaimedByAny(grammar, body_classes(grammar, Last(Top(stack).body).cls),
                        Last(hsi.hasher)[3])

\* the index of the first body class that claims the statement
FirstBodyClaim(g, classes, s) ==
    CHOOSE i \in 1..Len(classes) :
        /\ BodyClaims(g, classes[i], s)
        /\ \A j \in 1..(i - 1) : ~BodyClaims(g, classes[j], s)

\* the next statement goes to the body classes of the innermost open block
\* and the first of them that claims it is a statement class
StatementClassClaimsNext ==
    /\ NoClosingClaimsNext
    /\ BodyClaimedByAny(grammar, body_classes(grammar, Top(stack).cls), Remaining(hsi)[1][3])
    /\ ~IsBlockClass(body_classes(grammar, Top(stack).cls)[
            FirstBodyClaim(grammar, body_classes(grammar, Top(stack).cls),
                           Remaining(hsi)[1][3])])

\* the parse of the next statement by the first body class that claims it
FirstBodyParse ==
    from_string_and_config(
        body_classes(grammar, Top(stack).cls)[
            FirstBodyClaim(grammar, body_classes(grammar, Top(stack).cls),
                           Remaining(hsi)[1][3])],
        Remaining(hsi)[1][3])

\* C2: the body element is the parse of the triple by the first body class,
\* in declaration order, whose parse is not None, be it a value or an error
\* value; one element is appended and one triple consumed, so that no later
\* class has a say about the triple.
C2_FirstBodyClassWins ==
    [][StatementClassClaimsNext =>
            /\ Len(stack') = Len(stack)
            /\ Pop(stack') = Pop(stack)
            /\ Top(stack').body =
                    Append(Top(stack).body,
                           [FirstBodyParse EXCEPT !.lineno = Remaining(hsi)[1][1],
                                                  !.colno = Remaining(hsi)[1][2]])
            /\ ConsumedOne
       ]_vars

\* the last body element is an error value of EqualFloat for a statement
\* that Comment, declared after EqualFloat, parses into a value
C2_Witness ==
    /\ pc = "loop"
    /\ body_classes(grammar, Top(stack).cls) = <<"EqualFloat", "Comment">>
    /\ Top(stack).body # <<>>
    /\ Last(Top(stack).body).node = "Element"
    /\ Last(Top(stack).body).type = "NotAValidIdentifier"
    /\ Position(Last(Top(stack).body)) = TriplePosition(Last(hsi.hasher))
    /\ Comment_from_string(Last(hsi.hasher)[3]).type = "Comment"

\* the statement classes a grammar author wrote
AuthorClasses == {"Open", "Close", "Comment", "EqualFloat"}

\* ParsedStatement.consume of class cls on iterator h, with t the next
\* triple of h: a parse of None leaves the same next triple for peek and
\* next and the same elements hashed; any other parse consumes and hashes
\* t and comes back with the position of t
ConsumeContract(cls, h, t) ==
    IF Claims(cls, t[3])
    THEN /\ ParsedStatement_consume(cls, h).val =
                [from_string_and_config(cls, t[3]) EXCEPT !.lineno = t[1], !.colno = t[2]]
         /\ Remaining(ParsedStatement_consume(cls, h).hsi) = Tail(Remaining(h))
         /\ ParsedStatement_consume(cls, h).hsi.hasher = Append(h.hasher, t)
    ELSE /\ IsNone(ParsedStatement_consume(cls, h).val)
         /\ ~ParsedStatement_consume(cls, h).stop
         /\ ~peek(ParsedStatement_consume(cls, h).hsi).stop
         /\ peek(ParsedStatement_consume(cls, h).hsi).val = t
         /\ ~HashIterator_next(ParsedStatement_consume(cls, h).hsi).stop
         /\ HashIterator_next(ParsedStatement_consume(cls, h).hsi).val = t
         /\ Remaining(ParsedStatement_consume(cls, h).hsi) = Remaining(h)
         /\ ParsedStatement_consume(cls, h).hsi.hasher = h.hasher

\* C3: ParsedStatement.consume of any class, on the iterator as the parser
\* holds it and on the same iterator after a peek: when the parse of the
\* next triple is None the iterator is logically unchanged, otherwise that
\* one triple is consumed and its line and column are on the value returned.
C3_ConsumePeeksThenCommits ==
    Remaining(hsi) # <<>> =>
        \A cls \in AuthorClasses :
            /\ ConsumeContract(cls, hsi, Remaining(hsi)[1])
            /\ ConsumeContract(cls, peek(hsi).hsi, Remaining(hsi)[1])

\* an error value of a class was committed at a column after a delimiter,
\* and some class does not claim the triple that is next
C3_Witness ==
    /\ pc = "loop"
    /\ Remaining(hsi) # <<>>
    /\ \E cls \in AuthorClasses : ~Claims(cls, Remaining(hsi)[1][3])
    /\ Top(stack).body # <<>>
    /\ Last(Top(stack).body).node = "Element"
    /\ Last(Top(stack).body).type = "CannotParseToFloat"
    /\ Position(Last(Top(stack).body)) = TriplePosition(Last(hsi.hasher))
    /\ Last(hsi.hasher)[2] > 0

\* neither a closing class nor a body class of the innermost open block
\* claims the next statement
NoClassClaimsNext ==
    /\ NoClosingClaimsNext
    /\ ~BodyClaimedByAny(grammar, body_classes(grammar, Top(stack).cls), Remaining(hsi)[1][3])

\* C4: when no closing class and no body class claims the next triple, the
\* iteration consumes that one triple and appends UnknownStatement(text) with
\* the triple's line and column to the body; the block stays open and the
\* loop goes on.
C4_UnknownStatement ==
    [][NoClassClaimsNext =>
            /\ stack' = [stack EXCEPT ![Len(stack)].body =
                            Append(@, [node |-> "Element", type |-> "UnknownStatement",
                                       lineno |-> Remaining(hsi)[1][1],
                                       colno |-> Remaining(hsi)[1][2],
                                       args |-> <<Remaining(hsi)[1][3]>>])]
            /\ ConsumedOne
            /\ pc' = "loop"
       ]_vars

\* an UnknownStatement was appended to the body of a nested block, and
\* there is a triple after it
C4_Witness ==
    /\ pc = "loop"
    /\ Len(stack) >= 2
    /\ Remaining(hsi) # <<>>
    /\ Top(stack).body # <<>>
    /\ Last(Top(stack).body).node = "Element"
    /\ Last(Top(stack).body).type = "UnknownStatement"
    /\ Position(Last(Top(stack).body)) = TriplePosition(Last(hsi.hasher))
    /\ Last(Top(stack).body).args = <<Last(hsi.hasher)[3]>>

\* the triples of the source
Triples == from_lines(strip_spaces, delimiters, lines)

RemoveAt(q, i) == SubSeq(q, 1, i - 1) \o SubSeq(q, i + 1, Len(q))

\* the positions of the error values that are elements of a body, in the
\* block's own body and in the bodies of the blocks nested in it
RECURSIVE BodyErrors(_)
BodyErrorsOf(el) ==
    IF IsBlock(el) THEN BodyErrors(el.body)
    ELSE IF IsError(el) THEN {Position(el)} ELSE {}

BodyErrors(body) ==
    IF body = <<>> THEN {} ELSE BodyErrorsOf(Head(body)) \cup BodyErrors(Tail(body))

\* the block without the body element at pos, every other node in its place
RECURSIVE BodyWithout(_, _)
BlockWithout(b, pos) == [b EXCEPT !.body = BodyWithout(@, pos)]

BodyWithout(body, pos) ==
    IF body = <<>> THEN <<>>
    ELSE IF IsBlock(Head(body))
    THEN <<BlockWithout(Head(body), pos)>> \o BodyWithout(Tail(body), pos)
    ELSE IF Position(Head(body)) = pos THEN BodyWithout(Tail(body), pos)
    ELSE <<Head(body)>> \o BodyWithout(Tail(body), pos)

\* the next triple becomes an error value in the body of the innermost open
\* block: no class claims it, or the first body class that claims it is a
\* statement class that returns an error value
BodyErrorNext ==
    \/ NoClassClaimsNext
    \/ StatementClassClaimsNext /\ IsError(FirstBodyParse)

\* every triple is consumed, and the tree is, but for the error value itself,
\* the tree of the same triples without the one that became the error value
ErrorsLeaveSiblingsAlone ==
    pc = "done" =>
        /\ hsi.hasher = Triples
        /\ \A i \in 1..Len(Triples) :
                TriplePosition(Triples[i]) \in BodyErrors(result.body) =>
                    Parser_consume(grammar, RemoveAt(Triples, i)) =
                        BlockWithout(result, TriplePosition(Triples[i]))

\* C5: an UnknownStatement or an error value of a body statement class is
\* appended to the body of the innermost open block, which stays open with
\* the loop going on; and the finished tree holds, for every triple after
\* the erroneous one, the node in the block that the parse of the input
\* without the erroneous triple gives.
C5_BodyErrorKeepsParsing ==
    /\ []ErrorsLeaveSiblingsAlone
    /\ [][BodyErrorNext =>
            /\ pc' = "loop"
            /\ Len(stack') = Len(stack)
            /\ Pop(stack') = Pop(stack)
            /\ Top(stack').cls = Top(stack).cls
            /\ Top(stack').opening = Top(stack).opening
            /\ Len(Top(stack').body) = Len(Top(stack).body) + 1
            /\ SubSeq(Top(stack').body, 1, Len(Top(stack).body)) = Top(stack).body
            /\ IsError(Last(Top(stack').body))
            /\ ConsumedOne
         ]_vars

\* a nested block holds an error value followed by another body element and
\* was closed by a closing statement
C5_Witness ==
    /\ pc = "done"
    /\ \E i \in 1..Len(result.body) :
            /\ IsBlock(result.body[i])
            /\ Len(result.body[i].body) >= 2
            /\ IsError(result.body[i].body[1])
            /\ result.body[i].closing.type = "Close"

\* the marker of an unterminated block
UnexpectedEOFUnset ==
    [node |-> "Element", type |-> "UnexpectedEOF", lineno |-> -1, colno |-> -1, args |-> <<>>]

\* the iterator is exhausted while a block other than the root block is open
ExhaustedInNestedBlock ==
    /\ pc = "loop"
    /\ Len(stack) >= 2
    /\ Remaining(hsi) = <<>>

\* C6: when the iterator is exhausted in an open block other than the root
\* block, the block is returned to the enclosing block with the opening it
\* matched, the body elements committed so far in their order, and
\* UnexpectedEOF at (-1, -1) as its closing; the elements consumed stay
\* consumed.
C6_UnexpectedEOFKeepsBody ==
    [][ExhaustedInNestedBlock =>
            /\ pc' = "loop"
            /\ stack' = [Pop(stack) EXCEPT ![Len(stack) - 1].body =
                            Append(@, [node |-> "Block", cls |-> Top(stack).cls,
                                       opening |-> Top(stack).opening,
                                       body |-> Top(stack).body,
                                       closing |-> UnexpectedEOFUnset])]
            /\ hsi'.hasher = hsi.hasher
            /\ Remaining(hsi') = <<>>
       ]_vars

\* an unterminated block with two elements in its body was returned to the
\* enclosing block
C6_Witness ==
    /\ pc = "loop"
    /\ Remaining(hsi) = <<>>
    /\ Top(stack).body # <<>>
    /\ IsBlock(Last(Top(stack).body))
    /\ Last(Top(stack).body).closing = UnexpectedEOFUnset
    /\ Len(Last(Top(stack).body).body) >= 2
    /\ Position(Last(Top(stack).body).opening) = <<0, 0>>

BOSAtOrigin ==
    [node |-> "Element", type |-> "BOS", lineno |-> 0, colno |-> 0, args |-> <<>>]

EOSUnset ==
    [node |-> "Element", type |-> "EOS", lineno |-> -1, colno |-> -1, args |-> <<>>]

\* C7: the root block opens with BOS at (0, 0) and the iterator is the same
\* before and after, with nothing looked ahead and nothing consumed; when the
\* iterator is exhausted with the root block innermost, the root block is
\* returned with its body and EOS at (-1, -1); so every parse ends with
\* BOS at (0, 0) and EOS at (-1, -1) around the root body, an unterminated
\* nested block having taken UnexpectedEOF for itself.
C7_RootOpensAndCloses ==
    /\ [][pc = "start" =>
            /\ stack' = <<[cls |-> RootClass, opening |-> BOSAtOrigin, body |-> <<>>]>>
            /\ hsi' = hsi
            /\ hsi'.cache = <<>>
            /\ hsi'.hasher = <<>>
         ]_vars
    /\ [][pc = "loop" /\ Len(stack) = 1 /\ Remaining(hsi) = <<>> =>
            /\ pc' = "done"
            /\ result' = [node |-> "Block", cls |-> RootClass, opening |-> BOSAtOrigin,
                           body |-> stack[1].body, closing |-> EOSUnset]
         ]_vars
    /\ [](pc = "done" =>
            /\ result.cls = RootClass
            /\ result.opening = BOSAtOrigin
            /\ result.closing = EOSUnset
            /\ \A i \in 1..Len(result.body) :
                    IsBlock(result.body[i]) => result.body[i].closing # EOSUnset)

\* the parse ended with an unterminated block, which holds a statement, as
\* the last element of the root body
C7_Witness ==
    /\ pc = "done"
    /\ result.opening = BOSAtOrigin
    /\ result.closing = EOSUnset
    /\ result.body # <<>>
    /\ IsBlock(Last(result.body))
    /\ Last(result.body).closing = UnexpectedEOFUnset
    /\ Last(result.body).body # <<>>

\* a block nested in the root block was open when the iterator was
\* exhausted: it is the last element of the root body and unterminated
NestedOpenAtExhaustion ==
    /\ result.body # <<>>
    /\ IsBlock(Last(result.body))
    /\ Last(result.body).closing.type = "UnexpectedEOF"

\* C8 as stated: the closing of the root block is EOS when no nested block
\* was open at exhaustion and UnexpectedEOF when one was.
C8_RootClosingByNesting ==
    pc = "done" =>
        IF NestedOpenAtExhaustion
        THEN result.closing.type = "UnexpectedEOF"
        ELSE result.closing.type = "EOS"

\* C8: the closing of the root block is EOS when no nested block was open at
\* exhaustion, and is EOS as well when one was; UnexpectedEOF is then the
\* closing of that nested block, not of the root block.
C8_RootClosingIsEOS ==
    pc = "done" =>
        IF NestedOpenAtExhaustion
        THEN /\ result.closing.type = "EOS"
             /\ Last(result.body).closing = UnexpectedEOFUnset
        ELSE result.closing.type = "EOS"

\* the parse ended with two blocks open, one in the other
C8_Witness ==
    /\ pc = "done"
    /\ NestedOpenAtExhaustion
    /\ Last(result.body).body # <<>>
    /\ IsBlock(Last(Last(result.body).body))
    /\ Last(Last(result.body).body).closing.type = "UnexpectedEOF"
    /\ result.closing.type = "EOS"

\* BOS, EOS and UnexpectedEOF stand for no triple of the source
IsSynthetic(el) == el.type \in {"BOS", "EOS", "UnexpectedEOF"}

\* the nodes of a flattening that stand for a triple
NonSynthetic(flat) == SelectSeq(flat, LAMBDA el : ~IsSynthetic(el))

\* each triple is the position of exactly one of the nodes and each node is
\* at the position of exactly one of the triples
OneToOne(nodes, triples) ==
    /\ \A i \in 1..Len(triples) :
            Cardinality({j \in 1..Len(nodes) :
                            Position(nodes[j]) = TriplePosition(triples[i])}) = 1
    /\ \A j \in 1..Len(nodes) :
            Cardinality({i \in 1..Len(triples) :
                            TriplePosition(triples[i]) = Position(nodes[j])}) = 1
    /\ \A j, k \in 1..Len(nodes) : Position(nodes[j]) = Position(nodes[k]) => j = k

\* C9: when the root block is returned every triple of the source was taken
\* from the iterator, and the triples taken are in one-to-one correspondence,
\* by (line, col), with the nodes of the tree other than BOS, EOS and
\* UnexpectedEOF, which are statements, error values and UnknownStatements.
C9_TriplesAndNodes ==
    pc = "done" =>
        /\ Remaining(hsi) = <<>>
        /\ hsi.hasher = Triples
        /\ \A i \in 1..Len(Block_iter(result)) : Block_iter(result)[i].node = "Element"
        /\ OneToOne(NonSynthetic(Block_iter(result)), hsi.hasher)

\* four triples or more went into a tree with an error value and a block
\* that is not empty
C9_Witness ==
    /\ pc = "done"
    /\ Len(hsi.hasher) >= 4
    /\ \E i \in 1..Len(result.body) : IsError(result.body[i])
    /\ \E i \in 1..Len(result.body) :
            IsBlock(result.body[i]) /\ result.body[i].body # <<>>

\* (line, col) before (line, col)
Before(p, q) == p[1] < q[1] \/ (p[1] = q[1] /\ p[2] < q[2])

\* the flattening of a block is made of statements only, from its opening
\* to its closing, and its nodes that stand for a triple are the triples
\* taken, one for one in the order they were taken, which is the order of
\* increasing (line, col)
InSourceOrder(b, flat, nodes, triples) ==
    /\ \A i \in 1..Len(flat) : flat[i].node = "Element"
    /\ Head(flat) = b.opening
    /\ Last(flat) = b.closing
    /\ Len(nodes) = Len(triples)
    /\ \A i \in 1..Len(nodes) : Position(nodes[i]) = TriplePosition(triples[i])
    /\ \A i \in 1..(Len(nodes) - 1) : Before(Position(nodes[i]), Position(nodes[i + 1]))

\* the flattening of a block nested in the body is, whole and in the place
\* of the block, a part of the flattening of the body
FlattenedInPlace(b) ==
    \A i \in 1..Len(b.body) :
        IsBlock(b.body[i]) =>
            Block_iter_body(b.body) =
                Block_iter_body(SubSeq(b.body, 1, i - 1))
                \o <<b.body[i].opening>> \o Block_iter_body(b.body[i].body)
                \o <<b.body[i].closing>>
                \o Block_iter_body(SubSeq(b.body, i + 1, Len(b.body)))

\* C10: the iteration of the root block returned by consume starts with its
\* opening, ends with its closing and holds statements only, the opening,
\* body and closing of a nested block standing where the block stands in the
\* body; the nodes other than BOS, EOS and UnexpectedEOF come in the order
\* in which their triples were consumed, (line, col) strictly increasing.
C10_FlatteningInSourceOrder ==
    pc = "done" =>
        /\ InSourceOrder(result, Block_iter(result), NonSynthetic(Block_iter(result)),
                         hsi.hasher)
        /\ FlattenedInPlace(result)

\* the root body holds a statement, then a block with its closing statement,
\* then another element
C10_Witness ==
    /\ pc = "done"
    /\ \E i \in 2..(Len(result.body) - 1) :
            /\ ~IsBlock(result.body[i - 1])
            /\ IsBlock(result.body[i])
            /\ result.body[i].closing.type = "Close"

\* the error nodes of a tree, found by going down the tree: the opening,
\* the body elements from first to last, each nested block in its place,
\* the closing
RECURSIVE ErrorNodes(_)
RECURSIVE BodyErrorNodes(_)
ErrorNode(el) ==
    IF el.type \in {"UnknownStatement", "UnexpectedEOF", "NotAValidIdentifier",
                    "CannotParseToFloat"}
    THEN <<el>> ELSE <<>>

BodyErrorNodes(body) ==
    IF body = <<>> THEN <<>>
    ELSE (IF IsBlock(Head(body)) THEN ErrorNodes(Head(body)) ELSE ErrorNode(Head(body)))
         \o BodyErrorNodes(Tail(body))

ErrorNodes(b) == ErrorNode(b.opening) \o BodyErrorNodes(b.body) \o ErrorNode(b.closing)

\* a block and the blocks nested in it, at any depth
RECURSIVE Blocks(_)
RECURSIVE BodyBlocks(_)
BodyBlocks(body) ==
    IF body = <<>> THEN {}
    ELSE (IF IsBlock(Head(body)) THEN Blocks(Head(body)) ELSE {}) \cup BodyBlocks(Tail(body))

Blocks(b) == {b} \cup BodyBlocks(b.body)

\* errors and has_errors of a block are the error nodes of its tree
BlockErrorsAre(b, nodes) ==
    /\ Block_errors(b) = nodes
    /\ Block_has_errors(b) <=> nodes # <<>>

\* C11: for every block of every record of the project, at any depth,
\* errors is the sequence of the error nodes of the block's flattening
\* (UnknownStatement, UnexpectedEOF and the errors of the statement classes)
\* and has_errors tells whether there is one; has_errors of a record is that
\* of its root block, and has_errors of the project tells whether some
\* record has an error node.
C11_HasErrors ==
    /\ \A i \in 1..Len(pp) :
            /\ \A b \in Blocks(pp[i].value.parsed_source) : BlockErrorsAre(b, ErrorNodes(b))
            /\ ParsedCommon_has_errors(pp[i].value)
                    <=> ErrorNodes(pp[i].value.parsed_source) # <<>>
    /\ pp # <<>> =>
            (ParsedProject_has_errors(pp)
                <=> \E i \in 1..Len(pp) : ErrorNodes(pp[i].value.parsed_source) # <<>>)

\* parse returned a project whose root record has no error and one of whose
\* other records has an error value in a block that is not closed
C11_Witness ==
    /\ pc = "done"
    /\ Len(pp) >= 2
    /\ ~ParsedCommon_has_errors(pp[1].value)
    /\ \E i \in 2..Len(pp) :
            \E b \in Blocks(pp[i].value.parsed_source) :
                /\ b # pp[i].value.parsed_source
                /\ Len(ErrorNodes(b)) >= 2
                /\ Block_errors(pp[i].value.parsed_source) = ErrorNodes(b)

----------------------------------------------------------------------------
(* Peek and next *)

IsPeek(c) == c.op \in {"peek", "peek_default"}

\* what a call gave: an element, or nothing when there was none left
\* (StopIteration, or the default of peek)
Gave(c) ==
    IF c.stop THEN <<>>
    ELSE IF c.op = "peek_default" /\ c.val = Default THEN <<>>
    ELSE <<c.val>>

\* the elements returned by the calls of next, in order
RECURSIVE NextReturned(_)
NextReturned(cs) ==
    IF cs = <<>> THEN <<>>
    ELSE (IF Head(cs).op = "next" THEN Gave(Head(cs)) ELSE <<>>) \o NextReturned(Tail(cs))

IsPrefix(p, q) == Len(p) <= Len(q) /\ SubSeq(q, 1, Len(p)) = p

\* a call of next has found the iterator exhausted
NextStopped == \E i \in 1..Len(calls) : calls[i].op = "next" /\ calls[i].stop

\* C12: for any interleaving of peek and next, the cache holds at most one
\* element, a peek gives what the peek before it gave, a next gives what the
\* peek before it gave, and the elements returned by next are the wrapped
\* iterator's elements in order: none lost, duplicated or reordered
C12_PeekAndNext ==
    /\ Len(hsi.cache) <= 1
    /\ \A i \in 1..Len(calls) - 1 : IsPeek(calls[i]) => Gave(calls[i + 1]) = Gave(calls[i])
    /\ NextReturned(calls) \o hsi.cache \o hsi.it = Triples
    /\ NextStopped => NextReturned(calls) = Triples

C12_Witness ==
    /\ Len(calls) = 4
    /\ calls[1].op = "peek" /\ calls[2].op = "peek" /\ calls[3].op = "next"
    /\ calls[4].op = "next"
    /\ ~calls[4].stop
    /\ calls[4].val # calls[3].val
    /\ hsi.it # <<>>

\* C13: the digest is that of the elements returned by next, in order; a
\* next that returns feeds one element, and a peek leaves the digest as it was
C13_DigestOfNexts ==
    /\ [](hexdigest(hsi) = NextReturned(calls))
    /\ [][CallNext => hexdigest(hsi') = hexdigest(hsi) \o Gave(calls'[Len(calls')])]_vars
    /\ [][CallPeek \/ CallPeekDefault => hexdigest(hsi') = hexdigest(hsi)]_vars

\* two peeks at an element that one next consumes, and a peek at an element
\* that is not consumed
C13_Witness ==
    /\ Len(calls) = 4
    /\ calls[1].op = "peek" /\ calls[2].op = "peek" /\ calls[3].op = "next"
    /\ calls[4].op = "peek"
    /\ ~calls[4].stop
    /\ Len(hexdigest(hsi)) = 1

----------------------------------------------------------------------------
(* The content hash of two sources *)

\* the (line, col, text) triples the sequence iterator gives for a file
TriplesOf(path) == from_lines(strip_spaces, delimiters, files[path])

\* the accepted text: the statements of the triples, without the positions
Texts(triples) == [i \in 1..Len(triples) |-> triples[i][3]]

IsDelimiter(c) == \E i \in 1..Len(delimiters) : delimiters[i].dlm = <<c>>

\* a line without its whitespace and without its delimiters
Bare(line) == SelectSeq(line, LAMBDA c : ~IsSpace(c) /\ ~IsDelimiter(c))

\* the two sources differ solely in whitespace that is stripped away or in
\* delimiters that are discarded: line by line they are the same characters
\* but for whitespace and delimiters, and they give the same statements
DifferSolelyInDiscarded ==
    /\ files[PathA] # files[PathB]
    /\ Len(files[PathA]) = Len(files[PathB])
    /\ \A i \in 1..Len(files[PathA]) : Bare(files[PathA][i]) = Bare(files[PathB][i])
    /\ Texts(TriplesOf(PathA)) = Texts(TriplesOf(PathB))

BothParsed == pc = "hashed"

\* C14 as stated: sources that differ solely in stripped whitespace or
\* discarded delimiters have equal content_hash
C14_HashOfAcceptedText ==
    BothParsed /\ DifferSolelyInDiscarded
        => parsed[1].content_hash = parsed[2].content_hash

\* C14: the content_hash depends only on the consumed (line, col, text)
\* triples: two sources have equal content_hash exactly when they give the
\* same triples, so sources that differ in the text of a consumed
\* statement have different content_hash
C14_HashOfTriples ==
    BothParsed =>
        /\ parsed[1].content_hash = parsed[2].content_hash
                <=> TriplesOf(PathA) = TriplesOf(PathB)
        /\ Texts(TriplesOf(PathA)) # Texts(TriplesOf(PathB))
                => parsed[1].content_hash # parsed[2].content_hash

\* sources that differ in stripped whitespace with equal hashes, the
\* statements at the same places
C14_Witness ==
    /\ BothParsed
    /\ DifferSolelyInDiscarded
    /\ parsed[1].content_hash = parsed[2].content_hash
    /\ parsed[1].content_hash # <<>>

----------------------------------------------------------------------------
(* The split of a line *)

Line == lines[1]

\* the items of isplit: the delimiter matches and the rest of the line
Items == isplit(delimiters, Line)

WasSplit == pc = "split"

\* item i is a delimiter the loop comes to: no delimiter before it had the
\* terminate flag
Active(i) ==
    /\ ~Items[i].isnone
    /\ \A j \in 1..(i - 1) : ~Lookup(delimiters, Items[j].dlm).stop

\* where the delimiter of item i is in the line
DlmPos(i) == Items[i].col + Len(Items[i].part)

StatementEnd(k) == statements[k][1] + Len(statements[k][2])

EndsWith(s, suffix) ==
    Len(suffix) <= Len(s) /\ SubSeq(s, Len(s) - Len(suffix) + 1, Len(s)) = suffix

\* every statement is the text of the line at the column reported for it
TextAtColumn ==
    \A k \in 1..Len(statements) :
        statements[k][2] = SubSeq(Line, statements[k][1] + 1, StatementEnd(k))

\* a non-empty text before the delimiter of item i is the end of a statement
\* that stops at the delimiter
TextBeforeEmitted(i) ==
    Items[i].part # <<>> =>
        \E k \in 1..Len(statements) :
            StatementEnd(k) = DlmPos(i) /\ EndsWith(statements[k][2], Items[i].part)

\* no statement holds the delimiter of item i
Dropped(i) ==
    \A k \in 1..Len(statements) :
        ~(statements[k][1] <= DlmPos(i) /\ DlmPos(i) < StatementEnd(k))

\* a statement ends with the text before the delimiter of item i and the
\* delimiter
KeptWithPrevious(i) ==
    \E k \in 1..Len(statements) :
        /\ StatementEnd(k) = DlmPos(i) + Len(Items[i].dlm)
        /\ EndsWith(statements[k][2], Items[i].part \o Items[i].dlm)

\* a statement begins with the delimiter of item i, at the delimiter's column
KeptWithNext(i) ==
    \E k \in 1..Len(statements) :
        /\ statements[k][1] = DlmPos(i)
        /\ StartsWith(statements[k][2], Items[i].dlm)

Retained(i) ==
    CASE Lookup(delimiters, Items[i].dlm).mode = SKIP -> TextBeforeEmitted(i) /\ Dropped(i)
      [] Lookup(delimiters, Items[i].dlm).mode = WITH_PREVIOUS -> KeptWithPrevious(i)
      [] Lookup(delimiters, Items[i].dlm).mode = WITH_NEXT -> TextBeforeEmitted(i) /\ KeptWithNext(i)

\* C15: every delimiter the loop comes to is dealt with by its mode: SKIP
\* drops it and the text before it is emitted at its own column,
\* WITH_PREVIOUS ends a statement with it, WITH_NEXT begins the next
\* statement with it at the delimiter's column; no WITH_PREVIOUS or
\* WITH_NEXT delimiter is lost
C15_RetentionModes ==
    WasSplit =>
        /\ TextAtColumn
        /\ \A i \in 1..Len(Items) : Active(i) => Retained(i)

\* the first delimiter with the terminate flag
Terminating(i) == Active(i) /\ Lookup(delimiters, Items[i].dlm).stop

\* the end of the statements that come before the rest of the line
BeforeRest(i) ==
    IF Lookup(delimiters, Items[i].dlm).mode = WITH_PREVIOUS
    THEN DlmPos(i) + Len(Items[i].dlm) ELSE DlmPos(i)

\* what is carried into the rest of the line
Carried(i) ==
    IF Lookup(delimiters, Items[i].dlm).mode = WITH_NEXT THEN Items[i].dlm ELSE <<>>

RestOfLine(i) == SubSeq(Line, DlmPos(i) + Len(Items[i].dlm) + 1, Len(Line))

C17_NoEmptyStatement ==
    WasSplit => \A k \in 1..Len(statements) : statements[k][2] # <<>>

SingleSkip == Len(delimiters) = 1 /\ delimiters[1].mode = SKIP

RECURSIVE Join(_, _)
Join(sts, d) ==
    IF sts = <<>> THEN <<>>
    ELSE IF Len(sts) = 1 THEN sts[1][2]
    ELSE sts[1][2] \o d \o Join(Tail(sts), d)

Rejoined == Join(statements, delimiters[1].dlm)

\* a delimiter with terminate true was met
Fired == \E i \in 1..Len(Items) : Terminating(i)

\* C18 as stated: for one SKIP delimiter, the statements joined with the
\* delimiter are the line if and only if no terminate flag fired
C18_RejoinIffNoTerminate ==
    WasSplit /\ SingleSkip => (Rejoined = Line <=> ~Fired)

\* no empty part was left out: the line is empty, or a terminate flag fired
\* after a non-empty text, or none fired and no text before, between or
\* after the delimiters is empty
NothingLeftOut ==
    \/ Line = <<>>
    \/ Fired /\ Items[1].part # <<>>
    \/ ~Fired /\ \A i \in 1..Len(Items) : Items[i].part # <<>>

\* C18: for one SKIP delimiter, the statements joined with the delimiter
\* are the line if and only if the split left out no empty part, whether a
\* terminate flag fired or not
C18_RejoinIffNothingLeftOut ==
    WasSplit /\ SingleSkip => (Rejoined = Line <=> NothingLeftOut)

\* a split without terminate flag that does not give the line back
C18_Witness ==
    /\ WasSplit
    /\ SingleSkip
    /\ ~delimiters[1].stop
    /\ Len(statements) = 2
    /\ Rejoined # Line

----------------------------------------------------------------------------
(* Sources without statements *)

\* every line of the file is empty or whitespace only
AllBlank(path) == \A i \in 1..Len(files[path]) : \A j \in 1..Len(files[path][i]) : IsSpace(files[path][i][j])

\* no triple, an empty body closed by EOS, no errors, the digest of nothing
EmptyResult(path, parsed_source_file) ==
    /\ TriplesOf(path) = <<>>
    /\ parsed_source_file.parsed_source.body = <<>>
    /\ parsed_source_file.parsed_source.closing.type = "EOS"
    /\ ~ParsedCommon_has_errors(parsed_source_file)
    /\ parsed_source_file.content_hash = hexdigest(HashSequenceIterator(<<>>))

\* C19: with strip_spaces, a source without lines and a source of empty or
\* whitespace-only lines give the same result: no triple, a root block with
\* an empty body, closing EOS and no errors, and the digest of the empty
\* stream
C19_BlankLikeEmpty ==
    BothParsed /\ strip_spaces =>
        /\ AllBlank(PathA) => EmptyResult(PathA, parsed[1])
        /\ AllBlank(PathB) => EmptyResult(PathB, parsed[2])
        /\ AllBlank(PathA) /\ AllBlank(PathB)
                => /\ parsed[1].parsed_source = parsed[2].parsed_source
                   /\ parsed[1].content_hash = parsed[2].content_hash

\* a file without lines and a file of an empty and a whitespace-only line
C19_Witness ==
    /\ BothParsed
    /\ strip_spaces
    /\ files[PathA] = <<>>
    /\ Len(files[PathB]) = 2
    /\ files[PathB][1] # files[PathB][2]
    /\ AllBlank(PathB)
    /\ EmptyResult(PathB, parsed[2])

----------------------------------------------------------------------------
(* The keys of a project *)

\* the targets of the include statements of a tree, at any depth
RECURSIVE IncludeTargets(_)
RECURSIVE BodyIncludeTargets(_)
IncludeTargetOf(el) == IF el.type \in IncludeTypes THEN {target(el)} ELSE {}

BodyIncludeTargets(body) ==
    IF body = <<>> THEN {}
    ELSE (IF IsBlock(Head(body)) THEN IncludeTargets(Head(body)) ELSE IncludeTargetOf(Head(body)))
         \cup BodyIncludeTargets(Tail(body))

IncludeTargets(b) ==
    IncludeTargetOf(b.opening) \cup BodyIncludeTargets(b.body) \cup IncludeTargetOf(b.closing)

\* (origin, target) for every include statement of every record
IncludeKeys ==
    UNION { { <<origin(pp[i].value), t>> : t \in IncludeTargets(pp[i].value.parsed_source) } :
            i \in 1..Len(pp) }

\* the parse of the source the locator gives for the key
ParseOfLocated(key) == Parser_parse(default_locator(key[1], key[2]).path)

Returned_pp == pc = "done"

----------------------------------------------------------------------------
(* The order of the entries of a project *)

\* the keys in the order of insertion
KeysInOrder == [i \in 1..Len(pp) |-> pp[i].key]

\* the first occurrences of the elements of a sequence, with their places
FirstOccurrences(q) == SelectSeq([i \in 1..Len(q) |-> <<i, q[i]>>],
                                 LAMBDA p : \A j \in 1..(p[1] - 1) : q[j] # p[2])

\* the keys of the include statements of the record stored under a key, in
\* source order
IncludedBy(key) == includes(dict_get(pp, key))

\* depth first: a key, then each of its includes followed by that include's
\* own expansion, before the next include
RECURSIVE DepthFirst(_)
RECURSIVE DepthFirstAll(_)
DepthFirst(key) == <<key>> \o DepthFirstAll(IncludedBy(key))

DepthFirstAll(keys) ==
    IF keys = <<>> THEN <<>> ELSE DepthFirst(Head(keys)) \o DepthFirstAll(Tail(keys))

\* breadth first: the keys of one level in order, then the includes of all
\* of them in that order
RECURSIVE IncludedByAll(_)
IncludedByAll(keys) ==
    IF keys = <<>> THEN <<>> ELSE IncludedBy(Head(keys)) \o IncludedByAll(Tail(keys))

RECURSIVE BreadthFirst(_)
BreadthFirst(level) ==
    IF level = <<>> THEN <<>> ELSE level \o BreadthFirst(IncludedByAll(level))

OrderOf(q) == [i \in 1..Len(FirstOccurrences(q)) |-> FirstOccurrences(q)[i][2]]

\* C21 as stated: the entries are inserted in depth-first order of the
\* include expansion, an included source's own includes before the later
\* includes of the including source
C21_DepthFirstOrder ==
    Returned_pp => KeysInOrder = OrderOf(DepthFirst(RootKey))

\* C21: the entries are inserted in breadth-first order of the include
\* expansion: the root, then the includes of the entry source in source
\* order, then the includes of those sources, the later includes of the
\* including source before an included source's own includes
C21_BreadthFirstOrder ==
    Returned_pp => KeysInOrder = OrderOf(BreadthFirst(<<RootKey>>))

\* A includes B and then C, and B includes C
C21_Witness ==
    /\ Returned_pp
    /\ KeysInOrder = <<RootKey, <<PathA, PathB>>, <<PathA, PathC>>, <<PathB, PathC>>>>
    /\ IncludedBy(RootKey) = <<<<PathA, PathB>>, <<PathA, PathC>>>>

----------------------------------------------------------------------------
(* Includes of a key that the project already has *)

\* the include taken from the queue has its key in the project
KeyExists == pc = "pending" /\ pending # <<>> /\ Head(pending) \in dict_keys(pp)

----------------------------------------------------------------------------
(* The end of parse *)

\* parse has returned the project or has failed
ParseEnded == pc \in {"done", "raised"}

\* C23: parse terminates on every set of sources, also when the includes
\* form a cycle: the worklist becomes empty or the call fails
C23_ParseTerminates == <>ParseEnded

----------------------------------------------------------------------------
(* The statements of a project *)

\* iter_statements has been exhausted, or has raised, on the returned project
Iterated == pc = "iterated"

RECURSIVE Inlined(_, _)
RECURSIVE InlinedBody(_, _)

\* the statements under a node of a tree of the source `org`, in source
\* order, with the stream of the included source in the place of an include
Inlined(org, el) ==
    IF IsBlock(el)
    THEN Inlined(org, el.opening) \o InlinedBody(org, el.body) \o Inlined(org, el.closing)
    ELSE IF el.type \in IncludeTypes
    THEN Inlined(dict_get(pp, <<org, target(el)>>).filename,
                 dict_get(pp, <<org, target(el)>>).parsed_source)
    ELSE <<el>>

InlinedBody(org, body) ==
    IF body = <<>> THEN <<>> ELSE Inlined(org, Head(body)) \o InlinedBody(org, Tail(body))

InlinedRoot == Inlined(dict_get(pp, RootKey).filename, dict_get(pp, RootKey).parsed_source)

\* C24: iter_statements yields the statements of the root source in source
\* order with, in the place of every include statement, the whole stream of
\* the included source from its BOS to its EOS, inlined recursively, and no
\* include statement; what it has yielded when it raises is the beginning
\* of that stream; without includes it is the flattening of the root tree
C24_InlinedStream ==
    Iterated =>
        /\ ~statements.raised => statements.yielded = InlinedRoot
        /\ statements.raised => IsPrefix(statements.yielded, InlinedRoot)
        /\ \A i \in 1..Len(statements.yielded) :
                statements.yielded[i].type \notin IncludeTypes
        /\ includes(dict_get(pp, RootKey)) = <<>> =>
                statements.yielded = Block_iter(dict_get(pp, RootKey).parsed_source)

\* a source included in the middle of the root: its EOS is followed by a
\* statement of the root
C24_Witness ==
    /\ Iterated
    /\ ~statements.raised
    /\ \E i \in 1..(Len(statements.yielded) - 1) :
            /\ statements.yielded[i].type = "EOS"
            /\ statements.yielded[i + 1].type \notin {"BOS", "EOS"}
            /\ \E j \in 1..(i - 1) : statements.yielded[j].type \notin {"BOS", "EOS"}

RECURSIVE SourcesEntered(_, _)
RECURSIVE SourcesEnteredBody(_, _)

\* the files the includes under a node lead into, in the order of the stream
SourcesEntered(org, el) ==
    IF IsBlock(el) THEN SourcesEnteredBody(org, el.body)
    ELSE IF el.type \in IncludeTypes
    THEN <<dict_get(pp, <<org, target(el)>>).filename>>
         \o SourcesEntered(dict_get(pp, <<org, target(el)>>).filename,
                           dict_get(pp, <<org, target(el)>>).parsed_source)
    ELSE <<>>

SourcesEnteredBody(org, body) ==
    IF body = <<>> THEN <<>>
    ELSE SourcesEntered(org, Head(body)) \o SourcesEnteredBody(org, Tail(body))

\* the file of every BOS of the inlined stream, the root's first
SourceOfBOS ==
    <<dict_get(pp, RootKey).filename>>
    \o SourcesEntered(dict_get(pp, RootKey).filename, dict_get(pp, RootKey).parsed_source)

\* how many sources iter_statements has begun to yield
Begun == Len(SelectSeq(statements.yielded, LAMBDA el : el.type = "BOS"))

\* C25: with include_only_once, iter_statements never yields the statements
\* of one source file twice, whoever includes it the second time
C25_EachFileOnce ==
    Iterated /\ statements.include_only_once =>
        \A i, j \in 1..Begun : i # j => SourceOfBOS[i] # SourceOfBOS[j]

----------------------------------------------------------------------------
(* The errors of a project *)

\* localized_errors of the returned project has been exhausted
Localized == pc = "localized"

\* an error together with the origin of the source it came from
WithOrigin(err, org) ==
    [node |-> err.node, type |-> err.type, lineno |-> err.lineno, colno |-> err.colno,
     args |-> err.args, origin |-> org]

\* the error nodes of a record, each with the origin of the record
ErrorsOfSource(parsed_common) ==
    [i \in 1..Len(ErrorNodes(parsed_common.parsed_source)) |->
        WithOrigin(ErrorNodes(parsed_common.parsed_source)[i], parsed_common.filename)]

RECURSIVE ErrorsOfProject(_)
ErrorsOfProject(d) ==
    IF d = <<>> THEN <<>> ELSE ErrorsOfSource(Head(d).value) \o ErrorsOfProject(Tail(d))

\* C26: localized_errors of a project yields every error node of every
\* record, the records in insertion order and the errors of a record in the
\* order of its flattening, each with the origin of the source it came from
C26_ErrorsWithOrigin == Localized => result = ErrorsOfProject(pp)

----------------------------------------------------------------------------
(* The default locator: default_locator(source_location, target) *)

\* a component of a path that is kept: pathlib drops the empty ones and "."
Component(cur) == IF cur = <<>> \/ cur = <<".">> THEN <<>> ELSE <<cur>>

RECURSIVE PathParts(_, _)

\* the components of a path written with "/"
PathParts(s, cur) ==
    IF s = <<>> THEN Component(cur)
    ELSE IF Head(s) = "/" THEN Component(cur) \o PathParts(Tail(s), <<>>)
    ELSE PathParts(Tail(s), Append(cur, Head(s)))

\* pathlib.Path(s)
Path(s) == [absolute |-> s # <<>> /\ Head(s) = "/", parts |-> PathParts(s, <<>>)]

\* the directory tree the locator works in: the directories /, /d and /d/s
\* and the files /d/a, /d/c and /d/s/b; the working directory is /d
Cwd == << <<"d">> >>

Files == { << <<"d">>, <<"a">> >>, << <<"d">>, <<"c">> >>, << <<"d">>, <<"s">>, <<"b">> >> }

RECURSIVE Collapse(_, _)

\* ".." takes the component before it away; there is no symbolic link
Collapse(parts, acc) ==
    IF parts = <<>> THEN acc
    ELSE IF Head(parts) = <<".", ".">>
    THEN Collapse(Tail(parts), IF acc = <<>> THEN <<>> ELSE SubSeq(acc, 1, Len(acc) - 1))
    ELSE Collapse(Tail(parts), Append(acc, Head(parts)))

\* Path.resolve()
resolve(p) ==
    [absolute |-> TRUE,
     parts |-> Collapse((IF p.absolute THEN <<>> ELSE Cwd) \o p.parts, <<>>)]

\* Path.is_file()
is_file(p) == resolve(p).parts \in Files

\* Path.parent: the path without its last component, whatever it is
parent(p) ==
    [p EXCEPT !.parts = IF @ = <<>> THEN <<>> ELSE SubSeq(@, 1, Len(@) - 1)]

\* p / q for a relative q
joinpath(p, q) == [p EXCEPT !.parts = @ \o q.parts]

\* Path.is_relative_to: same anchor, and the parts of q begin those of p
is_relative_to(p, q) ==
    /\ p.absolute = q.absolute
    /\ Len(q.parts) <= Len(p.parts)
    /\ SubSeq(p.parts, 1, Len(q.parts)) = q.parts

\* what default_locator did: the exception raised ("" when none) and the
\* value returned
Located_at(value) == [raised |-> "", value |-> value]

Refused(exc) == [raised |-> exc, value |-> <<>>]

\* the lines of default_locator after current_path is set
default_locator_from(current_path, target_path) ==
    IF target_path.absolute THEN Refused("ValueError")
    ELSE IF ~is_relative_to(resolve(joinpath(current_path, target_path)), current_path)
    THEN Refused("ValueError")
    ELSE Located_at(resolve(joinpath(current_path, target_path)))

\* default_locator; a source location is [type, value]
DefaultLocator(source_location, tgt) ==
    IF source_location.type = "Path"
    THEN default_locator_from(
             IF is_file(resolve(source_location.value))
             THEN parent(source_location.value) ELSE source_location.value,
             Path(tgt))
    ELSE IF source_location.type = "tuple" /\ Len(source_location.value) = 2
    THEN Located_at(<<source_location.value[1], tgt>>)
    ELSE Refused("TypeError")

\* the characters of the targets
TargetChars == {"/", ".", "c", "s"}

Targets == UNION {[1..n -> TargetChars] : n \in 0..MaxTargetLen}

\* the source locations: files and directories, absolute and relative,
\* a path with "..", a path that is not there, a resource, and values of
\* other types
SourceLocations ==
    {[type |-> "Path", value |-> Path(s)] :
        s \in { <<"/", "d", "/", "a">>, <<"/", "d", "/", "s", "/", "b">>,
                <<"/", "d">>, <<"/", "d", "/", "s">>,
                <<"/", "d", "/", "s", "/", ".", ".", "/", "a">>,
                <<"/", "d", "/", "x">>,
                <<"a">>, <<"s", "/", "b">>, <<"s">>, <<".">> }}
    \cup {[type |-> "tuple", value |-> << <<"p">>, <<"n">> >>],
          [type |-> "tuple", value |-> << <<"p">>, <<"n">>, <<"m">> >>],
          [type |-> "str", value |-> <<"/", "d", "/", "a">>],
          [type |-> "NoneType", value |-> <<>>]}

InitLocate ==
    /\ pc = "locate"
    /\ calls = <<>>
    /\ result = None
    /\ grammar = G_Empty
    /\ strip_spaces = TRUE
    /\ delimiters = <<>>
    /\ lines = <<>>
    /\ hsi = HashSequenceIterator(<<>>)
    /\ stack = <<>>
    /\ statements = <<>>
    /\ files = <<>>
    /\ parsed = <<>>
    /\ pp = <<>>
    /\ pending = <<>>

\* a call default_locator(source_location, target)
Locate ==
    /\ pc = "locate"
    /\ \E source_location \in SourceLocations, tgt \in Targets :
          /\ calls' = <<[source_location |-> source_location, target |-> tgt]>>
          /\ result' = DefaultLocator(source_location, tgt)
    /\ pc' = "located"
    /\ UNCHANGED <<lines, grammar, strip_spaces, delimiters, hsi, stack>>
    /\ UNCHANGED <<statements, files, parsed, pp, pending>>

NextLocate == Locate

SpecLocate == InitLocate /\ [][NextLocate]_vars

\* the directory a source location stands for: the directory of the file,
\* or the location itself
DirectoryOf(p) == IF resolve(p).parts \in Files THEN parent(resolve(p)) ELSE resolve(p)

\* where the target leads from that directory
Resolution(p, tgt) == resolve(joinpath(DirectoryOf(p), Path(tgt)))

\* the target is relative and its resolution is in the directory or below it
StaysInside(p, tgt) ==
    /\ ~Path(tgt).absolute
    /\ is_relative_to(Resolution(p, tgt), DirectoryOf(p))

\* what the locator is to do with a source location and a target
LocatorContract(source_location, tgt, r) ==
    /\ source_location.type = "Path" /\ source_location.value.absolute =>
            IF StaysInside(source_location.value, tgt)
            THEN r = Located_at(Resolution(source_location.value, tgt))
            ELSE r.raised = "ValueError"
    /\ source_location.type = "tuple" /\ Len(source_location.value) = 2 =>
            r = Located_at(<<source_location.value[1], tgt>>)
    /\ source_location.type \notin {"Path", "tuple"} \/
       (source_location.type = "tuple" /\ Len(source_location.value) # 2) =>
            r.raised = "TypeError"

\* C27: for a file or a directory given by an absolute path, default_locator
\* returns the absolute path of every relative target that stays inside the
\* directory of the file (or the directory itself) and raises ValueError for
\* an absolute target and for one that leaves the directory; a (package,
\* name) pair gives (package, target); any other type raises TypeError
C27_DefaultLocator ==
    pc = "located" => LocatorContract(calls[1].source_location, calls[1].target, result)

----------------------------------------------------------------------------
(* The spec of parse: a tuple of classes, a root block class, a Parser
   class, or one class *)

RECURSIVE Union(_)

\* ty.Union[classes]: the classes without repetition, in their order
Union(classes) ==
    IF classes = <<>> THEN <<>>
    ELSE Union(SubSeq(classes, 1, Len(classes) - 1))
         \o (IF \E i \in 1..(Len(classes) - 1) : classes[i] = classes[Len(classes)]
             THEN <<>> ELSE <<classes[Len(classes)]>>)

\* the body classes of the root block class parse builds or is given
CustomRootBlock(spec) ==
    IF spec.kind = "tuple" THEN Union(spec.classes)
    ELSE IF spec.kind = "RootBlock" THEN Union(spec.body)
    ELSE <<spec.cls>>

\* a Parser class that does not strip the statements
CustomParser_unstripped(spec, blocks, strip, dlms) ==
    IF spec.kind = "Parser"
    THEN [grammar |-> [root |-> Union(spec.body), blocks |-> blocks],
          strip_spaces |-> FALSE, delimiters |-> <<>>]
    ELSE [grammar |-> [root |-> CustomRootBlock(spec), blocks |-> blocks],
          strip_spaces |-> strip, delimiters |-> dlms]

\* the parser class of parse: a Parser class given as spec is taken as it
\* is, with the SequenceIterator of Parser; otherwise one is built from the
\* root block class and the options strip_spaces and delimiters
CustomParser(spec, blocks, strip, dlms) ==
    IF spec.kind = "Parser"
    THEN [grammar |-> [root |-> Union(spec.body), blocks |-> blocks],
          strip_spaces |-> TRUE, delimiters |-> <<>>]
    ELSE [grammar |-> [root |-> CustomRootBlock(spec), blocks |-> blocks],
          strip_spaces |-> strip, delimiters |-> dlms]

\* parse(entry_point, spec) of a source without includes
parse_with(parser, path, lns) ==
    dict_set(<<>>, RootKey,
             parse_file(parser.grammar, parser.strip_spaces, parser.delimiters, path, lns))

\* the classes a spec is made of
SpecClassNames == {"Comment", "EqualFloat", "MyBlock"}

\* the ways to give the classes S1..Sn to parse
SpecsOf(classes) ==
    {[kind |-> "tuple", classes |-> classes],
     [kind |-> "RootBlock", body |-> classes],
     [kind |-> "Parser", body |-> classes]}
    \cup (IF Len(classes) = 1 THEN {[kind |-> "class", cls |-> classes[1]]} ELSE {})

FormLines ==
    { <<"@", "b", "e", "g", "i", "n">>,
      <<"@", "e", "n", "d">>,
      <<" ", "#", "h">>,
      <<"x", "=", "1">>,
      <<"?">> }

\* the classes S1..Sn are the root of `grammar`; parse is called with the
\* default options
InitForms ==
    /\ grammar \in {[root |-> classes, blocks |-> [MyBlock |-> MyBlock, Block2 |-> NoBlock]] :
                        classes \in UNION {[1..n -> SpecClassNames] : n \in 1..MaxClasses}}
    /\ strip_spaces = TRUE
    /\ delimiters = <<>>
    /\ lines \in UNION {[1..n -> FormLines] : n \in 0..MaxFileLines}
    /\ parsed = {}
    /\ pc = "forms"
    /\ hsi = HashSequenceIterator(<<>>)
    /\ stack = <<>>
    /\ result = None
    /\ calls = <<>>
    /\ statements = <<>>
    /\ files = <<>>
    /\ pp = <<>>
    /\ pending = <<>>

\* what parse(entry_point, spec) gave, and its iter_statements
ParsedWith(spec, project) ==
    [spec |-> spec, project |-> project, statements |-> iter_statements(project, TRUE).yielded]

\* pp = parse(entry_point, spec); tuple(pp.iter_statements())
ParseSpec ==
    /\ pc = "forms"
    /\ \E spec \in SpecsOf(grammar.root) :
          /\ \A r \in parsed : r.spec # spec
          /\ parsed' = parsed \cup
                {ParsedWith(spec, parse_with(CustomParser(spec, grammar.blocks,
                                                          strip_spaces, delimiters),
                                             PathA, lines))}
    /\ UNCHANGED <<lines, grammar, strip_spaces, delimiters, hsi, stack, pc, result>>
    /\ UNCHANGED <<calls, statements, files, pp, pending>>

NextForms == ParseSpec

SpecForms == InitForms /\ [][NextForms]_vars

\* lines with spaces to strip and with a delimiter
OptionLines ==
    { <<" ", "#", "h">>,
      <<"x", "=", "1">>,
      <<"x", "=", "1", ";", " ", "#", "h">>,
      <<"@", "b", "e", "g", "i", "n", ";", "@", "e", "n", "d">> }

\* parse is called with strip_spaces true or false and with no delimiters
\* or with ";"
InitOptions ==
    /\ grammar \in {[root |-> classes, blocks |-> [MyBlock |-> MyBlock, Block2 |-> NoBlock]] :
                        classes \in UNION {[1..n -> SpecClassNames] : n \in 1..MaxClasses}}
    /\ strip_spaces \in BOOLEAN
    /\ delimiters \in {<<>>, Semicolon}
    /\ lines \in UNION {[1..n -> OptionLines] : n \in 1..MaxFileLines}
    /\ parsed = {}
    /\ pc = "forms"
    /\ hsi = HashSequenceIterator(<<>>)
    /\ stack = <<>>
    /\ result = None
    /\ calls = <<>>
    /\ statements = <<>>
    /\ files = <<>>
    /\ pp = <<>>
    /\ pending = <<>>

SpecOptions == InitOptions /\ [][NextForms]_vars

\* two projects with the same keys, the same trees and the same hashes
SameProject(p, q) ==
    /\ Len(p) = Len(q)
    /\ \A i \in 1..Len(p) :
            /\ p[i].key = q[i].key
            /\ p[i].value.parsed_source.opening = q[i].value.parsed_source.opening
            /\ p[i].value.parsed_source.body = q[i].value.parsed_source.body
            /\ p[i].value.parsed_source.closing = q[i].value.parsed_source.closing
            /\ p[i].value.content_hash = q[i].value.content_hash

\* C28: with the default options, parse gives the same project, the same
\* iter_statements and the same content hashes whether the classes S1..Sn
\* come as a tuple, as the body of a root block class or through a Parser
\* class with that root block class; one class S is the same as (S,)
C28_SpecForms ==
    pc = "forms" =>
        \A r, q \in parsed :
            /\ SameProject(r.project, q.project)
            /\ r.statements = q.statements

\* the four forms have been parsed, of a source with a block and a comment
\* after spaces
C28_Witness ==
    /\ pc = "forms"
    /\ {r.spec.kind : r \in parsed} = {"tuple", "RootBlock", "Parser", "class"}
    /\ \E r \in parsed :
            /\ Len(r.statements) > 3
            /\ r.statements[2].type = "Open"
            /\ r.statements[3].type = "Comment"

----------------------------------------------------------------------------
(* The order of the body classes *)

\* the sequences that hold every element of a set once
Orders(S) == {q \in [1..Cardinality(S) -> S] : \A i, j \in 1..Cardinality(S) : i # j => q[i] # q[j]}

\* root blocks and MyBlocks with some of the classes in their bodies, in
\* every order; the body of MyBlock may name its opening or its closing class
OrderGrammars ==
    {[root |-> r, blocks |-> [MyBlock |-> [MyBlock EXCEPT !.body = b], Block2 |-> NoBlock]] :
        r \in UNION {Orders(S) : S \in SUBSET {"MyBlock", "Comment", "EqualFloat"} \ {{}}},
        b \in UNION {Orders(S) : S \in SUBSET {"Comment", "EqualFloat"}
                                        \cup {{"Open", "Comment"}, {"Close", "Comment"}}}}

OrderLines ==
    { <<"@", "b", "e", "g", "i", "n">>,
      <<"@", "e", "n", "d">>,
      <<" ", "#", "h">>,
      <<"x", "=", "1">>,
      <<"#", "=", "1">>,
      <<"?">> }

\* the same classes in the body of every block, in whatever order
SameClasses(g1, g2) ==
    \A cls \in BlockClasses \cup {RootClass} :
        /\ Len(body_classes(g1, cls)) = Len(body_classes(g2, cls))
        /\ {body_classes(g1, cls)[i] : i \in 1..Len(body_classes(g1, cls))}
             = {body_classes(g2, cls)[i] : i \in 1..Len(body_classes(g2, cls))}

InitOrder ==
    /\ grammar \in OrderGrammars
    /\ strip_spaces = TRUE
    /\ delimiters = <<>>
    /\ lines \in UNION {[1..n -> OrderLines] : n \in 0..MaxFileLines}
    /\ parsed = <<>>
    /\ pc = "order"
    /\ hsi = HashSequenceIterator(<<>>)
    /\ stack = <<>>
    /\ result = None
    /\ calls = <<>>
    /\ statements = <<>>
    /\ files = <<>>
    /\ pp = <<>>
    /\ pending = <<>>

\* the source is parsed with the grammar and with a grammar that has the
\* body classes in another order
ParseReordered ==
    /\ pc = "order"
    /\ \E g \in OrderGrammars :
          /\ g # grammar
          /\ SameClasses(g, grammar)
          /\ parsed' = << [grammar |-> grammar,
                           parsed |-> parse_file(grammar, strip_spaces, delimiters, PathA, lines)],
                          [grammar |-> g,
                           parsed |-> parse_file(g, strip_spaces, delimiters, PathA, lines)] >>
    /\ pc' = "ordered"
    /\ UNCHANGED <<lines, grammar, strip_spaces, delimiters, hsi, stack, result>>
    /\ UNCHANGED <<calls, statements, files, pp, pending>>

NextOrder == ParseReordered

SpecOrder == InitOrder /\ [][NextOrder]_vars

\* the statements a source can hold
Inputs == {Strip(l) : l \in OrderLines}

\* no two body classes of the block class accept the same statement
NoCommonInput(g, cls) ==
    \A s \in Inputs :
        \A i, j \in 1..Len(body_classes(g, cls)) :
            i # j => ~(BodyClaims(g, body_classes(g, cls)[i], s)
                       /\ BodyClaims(g, body_classes(g, cls)[j], s))

\* the block classes whose body classes are in another order
Reordered(g1, g2) ==
    {cls \in BlockClasses \cup {RootClass} : body_classes(g1, cls) # body_classes(g2, cls)}

----------------------------------------------------------------------------
(* The opening and closing classes in the body *)

\* the types of the values a statement class produces
Produces(cls) ==
    IF cls = "EqualFloat" THEN {"EqualFloat", "NotAValidIdentifier", "CannotParseToFloat"}
    ELSE {cls}

ProducedByAny(classes) == UNION {Produces(classes[i]) : i \in 1..Len(classes)}

\* the direct children of a block that are statements
Children(b) == SelectSeq(b.body, LAMBDA el : ~IsBlock(el))

PositionAllowed(el) ==
    CASE el.type = "BOS" -> Position(el) = <<0, 0>>
      [] el.type \in {"EOS", "UnexpectedEOF"} -> Position(el) = <<-1, -1>>
      [] OTHER -> el.lineno >= 0 /\ el.colno >= 0

\* C31: every node of the tree that was taken from the iterator has line >= 0
\* and column >= 0, whatever the modes and terminate flags of the delimiters
\* (the column of a statement that carries a WITH_NEXT delimiter is the
\* column of the delimiter); BOS is at (0, 0), EOS and UnexpectedEOF are at
\* (-1, -1); the nodes other than these three are the triples of the source,
\* each at the line and column of its triple.
C31_PositionsNotNegative ==
    pc = "nodes" =>
        /\ \A i \in 1..Len(Block_iter(result)) : PositionAllowed(Block_iter(result)[i])
        /\ \A i \in 1..Len(statements) : statements[i][1] >= 0 /\ statements[i][2] >= 0
        /\ [i \in 1..Len(NonSynthetic(Block_iter(result))) |->
                Position(NonSynthetic(Block_iter(result))[i])]
           = [i \in 1..Len(statements) |-> TriplePosition(statements[i])]

\* a statement on the second line begins with the "!" it carries, a
\* WITH_NEXT delimiter with the terminate flag, at the column of the "!",
\* and a block was left open
C31_Witness ==
    /\ pc = "nodes"
    /\ delimiters[1].mode = WITH_NEXT
    /\ delimiters[1].stop
    /\ Len(lines) = 2
    /\ Len(lines[2]) >= 3
    /\ lines[2][2] = "!"
    /\ \E i \in 1..Len(Block_iter(result)) :
            /\ Block_iter(result)[i].lineno = 1
            /\ Block_iter(result)[i].colno = 1
    /\ \E i \in 1..Len(Block_iter(result)) : Block_iter(result)[i].type = "UnexpectedEOF"

\* the grammar without the j-th body class of the block class
WithoutBodyClass(g, cls, j) ==
    IF IsRoot(cls) THEN [g EXCEPT !.root = RemoveAt(@, j)]
    ELSE [g EXCEPT !.blocks[cls].body = RemoveAt(@, j)]

\* a block class none of whose opening classes claims the next triple
OpeningUnclaimed(cls) ==
    /\ cls \in BlockClasses
    /\ ~ClaimedByAny(opening_classes(grammar, cls), Remaining(hsi)[1][3])

\* consume_opening of the class on the iterator h returns None and leaves
\* the next triple and the hash as they are
ReturnsNoneUnchanged(cls, h) ==
    /\ ~consume_opening(grammar, cls, h).stop
    /\ IsNone(consume_opening(grammar, cls, h).val)
    /\ Remaining(consume_opening(grammar, cls, h).hsi) = Remaining(hsi)
    /\ consume_opening(grammar, cls, h).hsi.hasher = hsi.hasher
    /\ peek(consume_opening(grammar, cls, h).hsi).val = Remaining(hsi)[1]
    /\ HashIterator_next(consume_opening(grammar, cls, h).hsi).val = Remaining(hsi)[1]

\* C32: when none of the opening classes of a block class of the body claims
\* the next triple, the consume of the block class returns None, the triple
\* is still the next one of the iterator and nothing was hashed, and the
\* iteration of the enclosing block goes the way it goes without the block
\* class among its body classes: the same triple is offered to the classes
\* that follow.
C32_UnclaimedOpeningLeavesIterator ==
    [][pc = "loop" /\ Remaining(hsi) # <<>> =>
            \A j \in 1..Len(body_classes(grammar, Top(stack).cls)) :
                OpeningUnclaimed(body_classes(grammar, Top(stack).cls)[j]) =>
                    /\ ReturnsNoneUnchanged(body_classes(grammar, Top(stack).cls)[j], hsi)
                    /\ ReturnsNoneUnchanged(body_classes(grammar, Top(stack).cls)[j],
                                            peek(hsi).hsi)
                    /\ Becomes(Block_consume_iteration(
                                    WithoutBodyClass(grammar, Top(stack).cls, j), stack, hsi),
                               Block_consume_iteration(grammar, stack, hsi).kind)
       ]_vars

\* the root block offered a statement to MyBlock first, whose opening class
\* does not claim it, and committed it as the value of the class after
C32_Witness ==
    /\ pc = "loop"
    /\ Len(stack) = 1
    /\ body_classes(grammar, RootClass) # <<>>
    /\ body_classes(grammar, RootClass)[1] = "MyBlock"
    /\ Top(stack).body # <<>>
    /\ hsi.hasher # <<>>
    /\ Last(Top(stack).body).node = "Element"
    /\ Last(Top(stack).body).type = "EqualFloat"
    /\ ~ClaimedByAny(opening_classes(grammar, "MyBlock"), Last(hsi.hasher)[3])
    /\ Last(hsi.hasher) = <<Last(Top(stack).body).lineno, Last(Top(stack).body).colno,
                            Last(hsi.hasher)[3]>>

\* an iteration that returns no block took exactly the next triple
IterationConsumes ==
    [][pc = "loop" /\ pc' = "loop" /\ Len(stack') >= Len(stack) =>
            Remaining(hsi) # <<>> /\ ConsumedOne]_vars

\* an iteration takes at most one triple, and what it takes goes to the hash
IterationTakesInOrder ==
    [][pc = "loop" =>
            IF Remaining(hsi) = <<>>
            THEN hsi'.hasher = hsi.hasher /\ Remaining(hsi') = <<>>
            ELSE ConsumedOne
       ]_vars

\* C33: the parse of the triples of a source returns; when it returns the
\* iterator is exhausted and the elements hashed are the non-empty triples
\* of the source, each once, in their order; every iteration of the loop of
\* an open block that returns no block takes exactly one triple, and an
\* iteration that takes none is the one that meets the end of the iterator.
C33_ParseExhaustsIterator ==
    /\ <>(pc = "done")
    /\ [](pc = "done" => /\ Remaining(hsi) = <<>>
                         /\ peek(hsi).stop
                         /\ hexdigest(hsi) = Triples)
    /\ [](hexdigest(hsi) \o Remaining(hsi) = Triples)
    /\ IterationConsumes
    /\ IterationTakesInOrder

\* the root block was returned after a block left open and a closed block,
\* the three lines of the source giving four triples
C33_Witness ==
    /\ pc = "done"
    /\ Len(lines) = 3
    /\ Len(hexdigest(hsi)) = 4
    /\ \E b \in Blocks(result) : b.closing.type = "Close"
    /\ \E b \in Blocks(result) : b.closing = UnexpectedEOFUnset

\* the UnexpectedEOF nodes of a sequence of nodes
UnexpectedEOFs(nodes) == SelectSeq(nodes, LAMBDA el : el.type = "UnexpectedEOF")

\* the UnexpectedEOF nodes in the bodies of the open blocks
RECURSIVE UnexpectedEOFsOfOpen(_)
UnexpectedEOFsOfOpen(st) ==
    IF st = <<>> THEN 0
    ELSE Len(UnexpectedEOFs(Block_iter_body(Head(st).body))) + UnexpectedEOFsOfOpen(Tail(st))

\* b is the block returned for the i-th open block of st: its opening and
\* the body it had, and, when a block was open in it, that block returned
\* unclosed as the last element of its body; every block but the root has
\* UnexpectedEOF as its closing
RECURSIVE ReturnedUnclosed(_, _, _)
ReturnedUnclosed(b, st, i) ==
    /\ IsBlock(b)
    /\ b.cls = st[i].cls
    /\ b.opening = st[i].opening
    /\ b.closing = IF i = 1 THEN EOSUnset ELSE UnexpectedEOFUnset
    /\ IF i = Len(st) THEN b.body = st[i].body
       ELSE /\ Len(b.body) = Len(st[i].body) + 1
            /\ SubSeq(b.body, 1, Len(st[i].body)) = st[i].body
            /\ ReturnedUnclosed(Last(b.body), st, i + 1)

\* C34: when the iterator is exhausted with k >= 1 blocks open in the root
\* block, one in the other, the root block that the parse returns holds the
\* k blocks down the last elements of the bodies, each with the opening and
\* the body it had and each with UnexpectedEOF as its closing, the root
\* itself closing with EOS; its errors hold k UnexpectedEOF nodes more than
\* the bodies held before, and none was there while triples remained.
C34_EveryOpenBlockUnclosed ==
    /\ pc = "loop" /\ Remaining(hsi) # <<>> => UnexpectedEOFsOfOpen(stack) = 0
    /\ pc = "loop" /\ Remaining(hsi) = <<>> /\ Len(stack) >= 2 =>
            /\ ReturnedUnclosed(Run(grammar, stack, hsi), stack, 1)
            /\ Len(UnexpectedEOFs(Block_errors(Run(grammar, stack, hsi))))
                    = Len(stack) - 1 + UnexpectedEOFsOfOpen(stack)
    /\ pc = "done" =>
            \A b \in Blocks(result) : \A i \in 1..Len(b.body) :
                IsBlock(b.body[i]) /\ b.body[i].closing.type = "UnexpectedEOF" =>
                    /\ i = Len(b.body)
                    /\ b.closing = IF IsRoot(b.cls) THEN EOSUnset ELSE UnexpectedEOFUnset

\* the iterator is exhausted with three blocks open, one in the other, and
\* no UnexpectedEOF in the tree yet
C34_Witness ==
    /\ pc = "loop"
    /\ Remaining(hsi) = <<>>
    /\ Len(stack) = 4
    /\ UnexpectedEOFsOfOpen(stack) = 0
    /\ Len(UnexpectedEOFs(Block_errors(Run(grammar, stack, hsi)))) = 3

\* a block class of the root body that lists itself in its body
ListsItself(g) ==
    /\ \E i \in 1..Len(g.root) : g.root[i] = "MyBlock"
    /\ \E i \in 1..Len(g.blocks["MyBlock"].body) : g.blocks["MyBlock"].body[i] = "MyBlock"
    /\ g.blocks["MyBlock"].opening = <<"Open">>
    /\ g.blocks["MyBlock"].closing = <<"Close">>

\* the pairs (position of an opening statement, position of the closing
\* statement that matches it) of a sequence of triples, the way parentheses
\* match: a closing statement goes with the last opening statement not yet
\* matched, a closing statement with none before it goes with nothing, and
\* an opening statement never matched goes with (-1, -1); open holds the
\* positions of the opening statements not yet matched
RECURSIVE Matching(_, _)
Matching(triples, open) ==
    IF triples = <<>> THEN {<<open[i], <<-1, -1>>>> : i \in 1..Len(open)}
    ELSE IF Claims("Open", Head(triples)[3])
    THEN Matching(Tail(triples), Append(open, TriplePosition(Head(triples))))
    ELSE IF Claims("Close", Head(triples)[3]) /\ open # <<>>
    THEN {<<Last(open), TriplePosition(Head(triples))>>}
         \cup Matching(Tail(triples), SubSeq(open, 1, Len(open) - 1))
    ELSE Matching(Tail(triples), open)

\* the positions of the closing statements met with nothing to match
RECURSIVE Unmatched(_, _)
Unmatched(triples, depth) ==
    IF triples = <<>> THEN {}
    ELSE IF Claims("Open", Head(triples)[3]) THEN Unmatched(Tail(triples), depth + 1)
    ELSE IF Claims("Close", Head(triples)[3]) /\ depth > 0
    THEN Unmatched(Tail(triples), depth - 1)
    ELSE IF Claims("Close", Head(triples)[3])
    THEN {TriplePosition(Head(triples))} \cup Unmatched(Tail(triples), depth)
    ELSE Unmatched(Tail(triples), depth)

\* a closing class of the innermost open block claims the next statement:
\* that block, and no other, is returned with it to the block around it
ClosesInnermost ==
    [][ClosingClaimsNext =>
            /\ pc' = "loop"
            /\ Len(stack') = Len(stack) - 1
            /\ \A i \in 1..(Len(stack) - 2) : stack'[i] = stack[i]
            /\ stack'[Len(stack) - 1] =
                    [stack[Len(stack) - 1] EXCEPT !.body =
                        Append(@, [node |-> "Block", cls |-> Top(stack).cls,
                                   opening |-> Top(stack).opening,
                                   body |-> Top(stack).body,
                                   closing |-> Last(Last(stack').body).closing])]
            /\ Last(Last(stack').body).closing.node = "Element"
            /\ ConsumedOne
            /\ Position(Last(Last(stack').body).closing) = TriplePosition(Remaining(hsi)[1])
       ]_vars

\* a closing statement is next when the root block is the only open block
ClosingAtRoot ==
    /\ pc = "loop"
    /\ Len(stack) = 1
    /\ Remaining(hsi) # <<>>
    /\ \E cls \in BlockClasses :
            ClaimedByAny(closing_classes(grammar, cls), Remaining(hsi)[1][3])

\* a closing statement met in the root block returns no block: it goes to
\* the root body as the value of the body class that claims it, or opens
\* the block whose opening class claims it, or is an UnknownStatement
ClosesNothingAtRoot ==
    [][ClosingAtRoot =>
            /\ pc' = "loop"
            /\ result' = None
            /\ stack'[1].opening = stack[1].opening
            /\ ConsumedOne
            /\ IF BodyClaimedByAny(grammar, body_classes(grammar, RootClass),
                                   Remaining(hsi)[1][3])
               THEN \/ Len(stack') = 2 /\ stack'[1] = stack[1]
                        /\ Position(stack'[2].opening) = TriplePosition(Remaining(hsi)[1])
                    \/ Len(stack') = 1
                        /\ SubSeq(stack'[1].body, 1, Len(stack[1].body)) = stack[1].body
                        /\ Len(stack'[1].body) = Len(stack[1].body) + 1
                        /\ ~IsBlock(Last(stack'[1].body))
                        /\ Last(stack'[1].body).type # "UnknownStatement"
               ELSE stack' = <<[stack[1] EXCEPT !.body =
                                    Append(@, from_line_col_statement(
                                                    Remaining(hsi)[1][1], Remaining(hsi)[1][2],
                                                    Remaining(hsi)[1][3]))]>>
       ]_vars

\* C35: a closing statement closes the innermost open block and no other; in
\* the root block it closes nothing and goes to the root body (as an
\* UnknownStatement when no body class claims it); with a block class that
\* lists itself in its body, the blocks of the tree returned pair the opening
\* and closing statements the way parentheses match, an opening never
\* matched giving a block with UnexpectedEOF, and the closing statements
\* with no opening to match are UnknownStatements of the root body.
C35_ClosingClosesInnermost ==
    /\ ClosesInnermost
    /\ ClosesNothingAtRoot
    /\ [](pc = "done" /\ ListsItself(grammar) =>
            /\ {<<Position(b.opening), Position(b.closing)>> :
                    b \in Blocks(result) \ {result}} = Matching(hsi.hasher, <<>>)
            /\ Cardinality(Blocks(result) \ {result})
                    = Cardinality(Matching(hsi.hasher, <<>>))
            /\ \A p \in Unmatched(hsi.hasher, 0) :
                    \E i \in 1..Len(result.body) :
                        /\ ~IsBlock(result.body[i])
                        /\ result.body[i].type = "UnknownStatement"
                        /\ Position(result.body[i]) = p)

\* a block closed by the second closing statement of the source holds a
\* block closed by the first: the openings and closings of the source are
\* paired from the inside out
C35_Witness ==
    /\ pc = "done"
    /\ ListsItself(grammar)
    /\ Len(result.body) = 1
    /\ IsBlock(result.body[1])
    /\ result.body[1].closing.type = "Close"
    /\ result.body[1].body # <<>>
    /\ IsBlock(result.body[1].body[1])
    /\ result.body[1].body[1].closing.type = "Close"
    /\ Before(Position(result.body[1].opening), Position(result.body[1].body[1].opening))
    /\ Before(Position(result.body[1].body[1].closing), Position(result.body[1].closing))
    /\ Cardinality(Matching(hsi.hasher, <<>>)) = 2

\* the statements offered to the classes in a parse: the triples hashed
Offered(project) == project[1].value.content_hash

\* C36: whatever the form of the spec (a tuple of classes, a root block
\* class, a Parser class, one class), the statements offered to the classes
\* are those that the options strip_spaces and delimiters given to parse
\* make of the lines: trimmed if and only if strip_spaces is true, and split
\* at the delimiters given.
C36_OptionsGovernEveryForm ==
    pc = "forms" =>
        \A r \in parsed :
            /\ Offered(r.project) = from_lines(strip_spaces, delimiters, lines)
            /\ r.project[1].value.parsed_source
                    = Parser_consume([root |-> Union(grammar.root), blocks |-> grammar.blocks],
                                     from_lines(strip_spaces, delimiters, lines))

====
